---- MODULE Spec2Model ----
(***************************************************************************)
(* The user-account service of oc-gamma (src/src/backend): the in-memory   *)
(* sliding-window rate limiter, the JWT token codec, session resolution    *)
(* and the auth endpoints, as a state machine.  Time is in whole seconds   *)
(* (the resolution of the exp claim and of jose's expiry comparison).      *)
(***************************************************************************)
EXTENDS Integers, Sequences, FiniteSets, TLC

VARIABLES
    now,                \* the wall clock read by time.time() / datetime.now()
    _rate_limit_store,  \* auth.py:41  key -> list of admitted timestamps
    limit,              \* SpecLimiter: the (max_requests, window_seconds) under test
    calls,              \* SpecLimiter: per key, the calls made so far [n, ok, first, last]
    lastCall,           \* SpecLimiter: the most recent call [key, limited, at, before]
    admitted,           \* per key, the timestamps of the calls answered not-limited
    users,              \* the users table (models/user.py), row i has id i
    req,                \* the requests in flight, one per slot
    resp,               \* the response sent last
    cookie,             \* the client's cookie jar: the access_token cookie
    reqlog,             \* per rate-limited endpoint, the times of the requests sent
    sent,               \* the number of requests the client has sent
    codec,              \* SpecToken: the token under test and what decoding it gave
    hasher,             \* SpecHasher: the digest under test and what verifying against it gave
    schema,             \* the database schema: tables, columns, recorded version
    boot                \* SpecSchema: the init_db calls made and the one in progress

vars == <<now, _rate_limit_store, limit, calls, lastCall, admitted,
          users, req, resp, cookie, reqlog, sent, codec, hasher, schema, boot>>

limiterVars == <<limit, calls, lastCall>>
serviceVars == <<users, req, resp, cookie, reqlog, sent>>

-----------------------------------------------------------------------------
(* Bounds and sampled inputs *)

\* The instants at which the clock is sampled (seconds).  0 and 30 lie in
\* one 60 s window, 60 is exactly one window after 0 and 61 is past it.
LimiterClock == {0, 30, 60, 61}

\* the saturating cap of the per-key call counter
MaxCalls == 5

\* client addresses seen by the service
IPs == {"10.0.0.1"}

NoEndpoint == ""
EndpointTags == {NoEndpoint, "password_change"}

-----------------------------------------------------------------------------
(* Rate limiter: auth.py:39-102 *)

\* auth.py:95  key = f"{ip}:{endpoint}" if endpoint else ip
RateKey(ip, endpoint) ==
    IF endpoint # NoEndpoint THEN ip \o ":" \o endpoint ELSE ip

Keys == {RateKey(ip, e) : ip \in IPs, e \in EndpointTags}

\* auth.py:69  [t for t in requests if t > window_start]
recent_requests(requests, window_start) ==
    SelectSeq(requests, LAMBDA t : t > window_start)

\* mutant: the rejected attempt is recorded as well
_check_rate_limit_recording(store, key, max_requests, window_seconds, t) ==
    LET recent == recent_requests(store[key], t - window_seconds)
    IN  [limited |-> Len(recent) >= max_requests,
         store   |-> [store EXCEPT ![key] = Append(recent, t)]]

\* mutant: off by one in the quota comparison (> instead of >=)
_check_rate_limit_offbyone(store, key, max_requests, window_seconds, t) ==
    LET recent == recent_requests(store[key], t - window_seconds)
    IN  IF Len(recent) > max_requests
        THEN [limited |-> TRUE,  store |-> [store EXCEPT ![key] = recent]]
        ELSE [limited |-> FALSE, store |-> [store EXCEPT ![key] = Append(recent, t)]]

\* mutant: the pruned list is not stored back, entries are only ever appended
_check_rate_limit_noprune(store, key, max_requests, window_seconds, t) ==
    LET recent == recent_requests(store[key], t - window_seconds)
    IN  IF Len(recent) >= max_requests
        THEN [limited |-> TRUE,  store |-> store]
        ELSE [limited |-> FALSE, store |-> [store EXCEPT ![key] = Append(store[key], t)]]

\* mutant: the current request is appended to a list that is no longer the
\* stored one (a lost update)
_check_rate_limit_lost(store, key, max_requests, window_seconds, t) ==
    LET recent == recent_requests(store[key], t - window_seconds)
    IN  [limited |-> Len(recent) >= max_requests,
         store   |-> [store EXCEPT ![key] = recent]]

\* mutant: the list stored for the key is a fresh one that holds the current
\* request only (what a writer racing on the map would leave)
_check_rate_limit_overwrite(store, key, max_requests, window_seconds, t) ==
    LET recent == recent_requests(store[key], t - window_seconds)
    IN  IF Len(recent) >= max_requests
        THEN [limited |-> TRUE,  store |-> [store EXCEPT ![key] = recent]]
        ELSE [limited |-> FALSE, store |-> [store EXCEPT ![key] = <<t>>]]

\* mutant: a rejected attempt takes the place of the oldest timestamp, so
\* that retrying keeps the record full
_check_rate_limit_extend(store, key, max_requests, window_seconds, t) ==
    LET recent == recent_requests(store[key], t - window_seconds)
    IN  IF Len(recent) >= max_requests
        THEN [limited |-> TRUE,
              store |-> [store EXCEPT ![key] = Append(Tail(recent), t)]]
        ELSE [limited |-> FALSE, store |-> [store EXCEPT ![key] = Append(recent, t)]]

\* mutant: a rejected attempt empties the record of its key
_check_rate_limit_clear(store, key, max_requests, window_seconds, t) ==
    LET recent == recent_requests(store[key], t - window_seconds)
    IN  IF Len(recent) >= max_requests
        THEN [limited |-> TRUE,  store |-> [store EXCEPT ![key] = <<>>]]
        ELSE [limited |-> FALSE, store |-> [store EXCEPT ![key] = Append(recent, t)]]

\* auth.py:52-77.  Returns the answer and the store after the call: the
\* pruned list is stored (line 70) and, when the quota is not reached, the
\* same list object gets the current time appended (line 76).
_check_rate_limit(store, key, max_requests, window_seconds, t) ==
    LET window_start == t - window_seconds
        recent == recent_requests(store[key], window_start)
    IN  IF Len(recent) >= max_requests
        THEN [limited |-> TRUE,  store |-> [store EXCEPT ![key] = recent]]
        ELSE [limited |-> FALSE, store |-> [store EXCEPT ![key] = Append(recent, t)]]

\* The history of the calls of a key that were answered not-limited.
Admit(adm, key, t) ==
    [adm EXCEPT ![key] = Append(@, t)]

-----------------------------------------------------------------------------
(* Password hasher and token codec: core/security.py, core/config.py *)

SECRET_KEY == "your-secret-key-change-in-production"
ACCESS_TOKEN_EXPIRE_MINUTES == 30

Salts == {"salt1"}

\* the empty string in the place of a digest
NoHash == [salt |-> "", digest |-> <<>>]

\* bcrypt.hashpw: the digest embeds the salt it was computed with
Bcrypt(password, salt) == [salt |-> salt, digest |-> <<salt, password>>]

\* a password kept as it is, not hashed
Plain(password) == [salt |-> "", digest |-> <<password>>]

\* mutant: the password is stored as it is
hash_password_plain(password, salt) == Plain(password)

\* security.py:15-28, for the salt bcrypt.gensalt() drew
hash_password(password, salt) == Bcrypt(password, salt)

\* mutant: every password verifies
verify_password_always(plain_password, hashed_password) == TRUE

\* mutant: only the salt is compared
verify_password_saltonly(plain_password, hashed_password) ==
    Bcrypt(plain_password, hashed_password.salt).salt = hashed_password.salt

\* security.py:31-44  bcrypt.checkpw re-hashes with the embedded salt
verify_password(plain_password, hashed_password) ==
    Bcrypt(plain_password, hashed_password.salt) = hashed_password

\* a digest bcrypt can parse: it carries the salt it was computed with
WellFormed(hashed_password) ==
    /\ hashed_password.salt # ""
    /\ Len(hashed_password.digest) = 2
    /\ hashed_password.digest[1] = hashed_password.salt

\* bcrypt.checkpw(password, hashed_password): re-hashes the password with the
\* salt parsed from the digest and compares; a digest it cannot parse raises
\* ValueError
checkpw(password, hashed_password) ==
    IF ~WellFormed(hashed_password)
    THEN [kind |-> "raised", value |-> FALSE, error |-> "ValueError: Invalid salt"]
    ELSE [kind |-> "returned",
          value |-> (Bcrypt(password, hashed_password.salt) = hashed_password),
          error |-> ""]

\* security.py:31-44  verify_password as a call with its outcome: what
\* checkpw returns is returned, what it raises is not caught
verify_password_call(plain_password, hashed_password) ==
    checkpw(plain_password, hashed_password)

\* no digest under test
NoHasher == [hashed |-> NoHash, set |-> FALSE, results |-> <<>>]

\* the HS256 signature of a claim set under a key
HS256(sub, exp, key) == <<sub, exp, key>>

\* jose jwt.encode: a signed token carrying the claims
jwt_encode(claims, key) ==
    [typ |-> "jwt", sub |-> claims.sub, exp |-> claims.exp,
     sig |-> HS256(claims.sub, claims.exp, key)]

\* no cookie (access_token is None), and a string that is no JWT
NoToken == [typ |-> "none", sub |-> "", exp |-> 0, sig |-> <<>>]
Garbage == [typ |-> "garbage", sub |-> "", exp |-> 0, sig |-> <<>>]

\* a timedelta argument; NoDelta is expires_delta = None
NoDelta == [given |-> FALSE, seconds |-> 0]
Delta(seconds) == [given |-> TRUE, seconds |-> seconds]

\* Python truth value of "timedelta | None": None and timedelta(0) are false
Truthy(expires_delta) == expires_delta.given /\ expires_delta.seconds # 0

\* security.py:47-73, for data = {"sub": sub} at time t
create_access_token(sub, expires_delta, t) ==
    LET expire == IF Truthy(expires_delta)
                  THEN t + expires_delta.seconds
                  ELSE t + ACCESS_TOKEN_EXPIRE_MINUTES * 60
    IN  jwt_encode([sub |-> sub, exp |-> expire], SECRET_KEY)

NoPayload == [sub |-> "", exp |-> 0]

\* jose jwt.decode at time t: the payload, or the exception it raises.
\* A string that is no JWT and a bad signature raise JWTError; an exp
\* earlier than the current second raises ExpiredSignatureError (jose
\* rejects exp < now, so the token is still accepted in its expiry second).
jwt_decode(token, key, t) ==
    IF token.typ # "jwt"
    THEN [exc |-> "JWTError", payload |-> NoPayload]
    ELSE IF token.sig # HS256(token.sub, token.exp, key)
    THEN [exc |-> "JWTError", payload |-> NoPayload]
    ELSE IF token.exp < t
    THEN [exc |-> "ExpiredSignatureError", payload |-> NoPayload]
    ELSE [exc |-> "", payload |-> [sub |-> token.sub, exp |-> token.exp]]

\* the exception classes "except JWTError" catches: JWTError and its subclasses
JWTErrors == {"JWTError", "ExpiredSignatureError", "JWTClaimsError"}

\* mutant: only the base class is caught, an expired token raises
decode_access_token_leaky(token, t) ==
    LET r == jwt_decode(token, SECRET_KEY, t)
    IN  IF r.exc = "" THEN [kind |-> "payload", payload |-> r.payload]
        ELSE IF r.exc = "JWTError" THEN [kind |-> "None", payload |-> NoPayload]
        ELSE [kind |-> "raised", payload |-> NoPayload]

\* security.py:76-92: the payload, None, or an exception that escapes
decode_access_token(token, t) ==
    LET r == jwt_decode(token, SECRET_KEY, t)
    IN  IF r.exc = "" THEN [kind |-> "payload", payload |-> r.payload]
        ELSE IF r.exc \in JWTErrors THEN [kind |-> "None", payload |-> NoPayload]
        ELSE [kind |-> "raised", payload |-> NoPayload]

\* str(user.id) and int(payload["sub"])
IdStr == <<"1", "2", "3">>
str(id) == IdStr[id]
int(sub) == CHOOSE i \in DOMAIN IdStr : IdStr[i] = sub

-----------------------------------------------------------------------------
(* Users table and repository: models/user.py, repositories/ *)

Emails == {"a@x.com", "b@x.com"}
Usernames == {"alice", "bob"}
Passwords == {"pw12345678", "newpassword456"}
Themes == {"light", "dark", "system"}

\* mutant: any string is accepted as a theme
ThemePreferenceUpdate_any(theme_preference) == TRUE

\* schemas/user.py:13, 39-42: the request body validates when its
\* theme_preference is one of the Literal's values
ThemePreferenceUpdate(theme_preference) == theme_preference \in Themes

\* a missing row: scalar_one_or_none() returned None
NoUser ==
    [id |-> 0, email |-> "", username |-> "", hashed_password |-> NoHash,
     full_name |-> "", is_active |-> FALSE, role |-> "", theme_preference |-> ""]

\* models/user.py:19-33: a new row with the column defaults
NewUser(id, email, username, hashed_password) ==
    [id |-> id, email |-> email, username |-> username,
     hashed_password |-> hashed_password, full_name |-> "",
     is_active |-> TRUE, role |-> "USER", theme_preference |-> "system"]

\* mutant: the table has no unique index
IntegrityError_none(rows, id, email, username) == FALSE

\* models/user.py:20-25  unique=True on email and on username: the INSERT or
\* UPDATE of row id with this email and username is refused when another
\* row holds one of them
IntegrityError(rows, id, email, username) ==
    \E i \in DOMAIN rows :
        /\ rows[i].id # id
        /\ (rows[i].email = email \/ rows[i].username = username)

\* repositories/base.py:28-33
get_by_id(id) == IF id \in DOMAIN users THEN users[id] ELSE NoUser

\* repositories/user.py:20-23
get_by_email(email) ==
    IF \E i \in DOMAIN users : users[i].email = email
    THEN users[CHOOSE i \in DOMAIN users : users[i].email = email]
    ELSE NoUser

\* repositories/user.py:25-30
get_by_username(username) ==
    IF \E i \in DOMAIN users : users[i].username = username
    THEN users[CHOOSE i \in DOMAIN users : users[i].username = username]
    ELSE NoUser

-----------------------------------------------------------------------------
(* Requests in flight.  A handler runs on the event loop and gives way only *)
(* at an await of the database; each action is one such uninterrupted run.  *)

\* the requests the service handles at the same time
Slots == {1, 2}

\* the number of requests a client sends in one behaviour
MaxRequests == 5

\* auth.py:36-37
COOKIE_NAME == "access_token"
COOKIE_MAX_AGE == 1800

\* a response without a Set-Cookie header
NoCookie ==
    [key |-> "", value |-> NoToken, httponly |-> FALSE, max_age |-> -1, samesite |-> ""]

\* mutant: the cookie is set without the HttpOnly attribute
set_cookie_script(key, value, httponly, max_age, samesite) ==
    [key |-> key, value |-> value, httponly |-> FALSE, max_age |-> max_age,
     samesite |-> samesite]

\* auth.py:188-195  response.set_cookie(key, value, httponly, max_age, samesite)
set_cookie(key, value, httponly, max_age, samesite) ==
    [key |-> key, value |-> value, httponly |-> httponly, max_age |-> max_age,
     samesite |-> samesite]

\* auth.py:216  response.delete_cookie(key): the cookie is sent back empty
\* and already expired
delete_cookie(key) ==
    [key |-> key, value |-> NoToken, httponly |-> FALSE, max_age |-> 0,
     samesite |-> "lax"]

\* the client's cookie of that name after a response with this header
Jar(held, header) ==
    IF header.key # COOKIE_NAME THEN held
    ELSE IF header.max_age = 0 THEN NoToken
    ELSE header.value

\* A request in flight (its inputs and its position pc) and, once answered,
\* the response with what the handler did on the way: ran (the endpoint body
\* started), rl (the answer of the rate-limit gate), resolved (the time the
\* token was decoded), found / active (the row session resolution or login
\* read), issued (the token login created), set_cookie, taken (which of a
\* registration's email and username a row held at its email lookup),
\* theme_preference (that of the profile the response carries), header (its
\* Set-Cookie header).
Idle ==
    [ep |-> "", pc |-> "idle", ip |-> "", token |-> NoToken, at |-> 0, uid |-> 0,
     found |-> FALSE, active |-> FALSE, ran |-> FALSE, rl |-> "none",
     prior |-> 0, window |-> 0,
     email |-> "", username |-> "", password |-> "", new_password |-> "",
     full_name |-> "", new_hashed |-> NoHash, theme |-> "", taken |-> "",
     status |-> 0, detail |-> "", issued |-> NoToken, set_cookie |-> FALSE,
     theme_preference |-> "", header |-> NoCookie]

\* a new request takes the first free slot, while the client has requests left
Free(s) ==
    /\ req[s].pc = "idle"
    /\ \A o \in Slots : o < s => req[o].pc # "idle"
    /\ sent < MaxRequests

\* the response of request r; the request's inputs are dropped
Response(r, status, detail) ==
    [r EXCEPT !.pc = "done", !.status = status, !.detail = detail,
              !.email = "", !.username = "", !.password = "", !.new_password = "",
              !.full_name = "", !.new_hashed = NoHash, !.theme = ""]

\* the handler of slot s returns: the response leaves and the slot is free
Answer(s, r, status, detail) ==
    /\ req' = [req EXCEPT ![s] = Idle]
    /\ resp' = Response(r, status, detail)

\* the handler of slot s reaches an await with its state q
Await(s, q) ==
    /\ req' = [req EXCEPT ![s] = q]
    /\ resp' = resp

\* the per-endpoint limits the handlers pass to check_rate_limit
RegisterQuota == [max_requests |-> 3,  window_seconds |-> 60, endpoint |-> NoEndpoint]
LoginQuota    == [max_requests |-> 5,  window_seconds |-> 60, endpoint |-> NoEndpoint]
PasswordQuota == [max_requests |-> 3,  window_seconds |-> 60, endpoint |-> "password_change"]
ThemeQuota    == [max_requests |-> 10, window_seconds |-> 60, endpoint |-> NoEndpoint]

Quota(ep) ==
    CASE ep = "register" -> RegisterQuota
      [] ep = "login" -> LoginQuota
      [] ep = "change_password" -> PasswordQuota
      [] ep = "update_theme_preference" -> ThemeQuota

Limited == {"register", "login", "change_password", "update_theme_preference"}
Authenticated == {"get_me", "update_me", "change_password", "update_theme_preference"}

\* auth.py:80-102: the key of the request and the answer of _check_rate_limit
check_rate_limit(ip, q) ==
    LET key == RateKey(ip, q.endpoint)
        r == _check_rate_limit(_rate_limit_store, key,
                               q.max_requests, q.window_seconds, now)
    IN  [key |-> key, limited |-> r.limited, store |-> r.store]

TooMany == "Rate limit exceeded. Please try again later."

\* the times of the requests a client sent to an endpoint in the trailing window
Log(log, ep, t) ==
    [log EXCEPT ![ep] =
        Append(recent_requests(@, t - Quota(ep).window_seconds), t)]

\* the requests log holds for ep in the trailing window at time t, the one
\* that was sent at time at and is being answered not counted
Prior(log, ep, at, t) ==
    LET q == Quota(ep)
        n == Len(recent_requests(log[ep], t - q.window_seconds))
    IN  IF at > t - q.window_seconds /\ n > 0 THEN n - 1 ELSE n

\* The calls of a key that were answered not-limited in the trailing window
\* of a check at time t with answer r: kept from the answers alone.
AdmitRecent(adm, r, w, t) ==
    LET recent == recent_requests(adm[r.key], t - w)
    IN  [adm EXCEPT ![r.key] = IF r.limited THEN recent ELSE Append(recent, t)]

\* the number of calls of r's key admitted in the trailing window, the call
\* being answered included
Window(r, w, t) == Len(AdmitRecent(admitted, r, w, t)[r.key])

\* the effect of one check_rate_limit call with quota q on the limiter's state
Gate(r, q) ==
    /\ _rate_limit_store' = r.store
    /\ admitted' = AdmitRecent(admitted, r, q.window_seconds, now)

\* the schema of a database init_db has brought up to date: the users table
\* with its theme_preference column, and alembic_version holding the one
\* migration (migrations.py:55-57)
Migrated ==
    [users |-> TRUE, theme_preference |-> 1, alembic_version |-> TRUE,
     version_num |-> "001_add_theme_preference"]

\* no init_db call in progress, none made
NoBoot ==
    [pc |-> "idle", current_version |-> "", calls |-> 0, alters |-> 0, error |-> ""]

NoOutcome == [kind |-> "", payload |-> NoPayload]

\* no token under test
NoCodec ==
    [sub |-> "", expires_delta |-> NoDelta, issued |-> -1, token |-> NoToken,
     at |-> -1, own |-> NoOutcome,
     seen |-> [c \in {"malformed", "signature", "expired"} |-> NoOutcome]]

\* a fresh process on a fresh database, the client holding no cookie
InitService ==
    /\ users = <<>>
    /\ req = [s \in Slots |-> Idle]
    /\ resp = Idle
    /\ cookie = NoToken
    /\ reqlog = [ep \in Limited |-> <<>>]
    /\ sent = 0

-----------------------------------------------------------------------------
(* The clock *)

\* time passes: the clock moves to a later sampled instant
Tick(instants) ==
    \E t \in instants : t > now /\ now' = t

-----------------------------------------------------------------------------
(* SpecLimiter: _check_rate_limit applied to keys with one fixed            *)
(* (max_requests, window_seconds), from an empty store.                     *)

LimitMaxes == {1, 2, 3}
LimitWindows == {30, 60}

NoCall == [key |-> "", limited |-> FALSE, at |-> -1, before |-> <<>>]
NoCalls == [n |-> 0, ok |-> 0, first |-> -1, last |-> -1]

Bump(n) == IF n < MaxCalls THEN n + 1 ELSE n

InitLimiter ==
    /\ now = 0
    /\ _rate_limit_store = [k \in Keys |-> <<>>]
    /\ limit \in [max_requests : LimitMaxes, window_seconds : LimitWindows]
    /\ calls = [k \in Keys |-> NoCalls]
    /\ lastCall = NoCall
    /\ admitted = [k \in Keys |-> <<>>]
    /\ InitService
    /\ codec = NoCodec
    /\ hasher = NoHasher
    /\ schema = Migrated
    /\ boot = NoBoot

\* one call _check_rate_limit(key, max_requests, window_seconds) at time now
Call(key) ==
    LET r == _check_rate_limit(_rate_limit_store, key,
                               limit.max_requests, limit.window_seconds, now)
    IN  /\ _rate_limit_store' = r.store
        /\ calls' = [calls EXCEPT ![key] =
                        [n     |-> Bump(@.n),
                         ok    |-> IF r.limited THEN @.ok ELSE Bump(@.ok),
                         first |-> IF @.n = 0 THEN now ELSE @.first,
                         last  |-> now]]
        /\ lastCall' = [key |-> key, limited |-> r.limited, at |-> now,
                        before |-> _rate_limit_store[key]]
        /\ admitted' = IF r.limited THEN admitted ELSE Admit(admitted, key, now)
        /\ UNCHANGED <<now, limit, serviceVars, codec, hasher, schema, boot>>

AdvanceLimiter ==
    /\ Tick(LimiterClock)
    /\ UNCHANGED <<_rate_limit_store, limit, calls, lastCall, admitted, serviceVars, codec, hasher, schema, boot>>

NextLimiter ==
    \/ AdvanceLimiter
    \/ \E key \in Keys : Call(key)

SpecLimiter == InitLimiter /\ [][NextLimiter]_vars

-----------------------------------------------------------------------------
(* Claims about the rate limiter, checked under SpecLimiter *)

TheMax == limit.max_requests
TheWindow == limit.window_seconds

\* C1: for one key checked with fixed max_requests = N and window_seconds = W
\* from an empty record, (i) each of the first N calls is answered
\* not-limited, (ii) the (N+1)-th call, made inside the window of the first,
\* is answered limited, and (iii) once the first N calls have been admitted,
\* a call made more than W seconds after the first call is answered
\* not-limited again, however many calls were rejected in between.
C1_FirstNThenLimitedThenFree ==
    \A k \in Keys :
        lastCall.key = k =>
            /\ (calls[k].n <= TheMax) => ~lastCall.limited
            /\ (calls[k].n = TheMax + 1 /\ lastCall.at < calls[k].first + TheWindow)
                    => lastCall.limited
            /\ (calls[k].n > TheMax /\ lastCall.at > calls[k].first + TheWindow
                    /\ lastCall.limited) => calls[k].ok # TheMax

\* the spec's example: max 3 in 60 s, three admitted, the fourth rejected in
\* the window, and the fifth call, past the window of the first, admitted
C1_Witness ==
    \E k \in Keys :
        /\ TheMax = 3 /\ TheWindow = 60
        /\ lastCall.key = k /\ ~lastCall.limited
        /\ calls[k].n = 5 /\ calls[k].ok = 4
        /\ lastCall.at > calls[k].first + TheWindow

\* the number of admitted calls of key k stamped in the trailing window (a - w, a]
AdmittedIn(k, a, w) ==
    Cardinality({i \in DOMAIN admitted[k] : admitted[k][i] > a - w /\ admitted[k][i] <= a})

\* C2: sliding-window safety.  For a key always checked with the same
\* (max_requests, window_seconds), at most max_requests admitted calls are
\* stamped inside any window (a - window_seconds, a]: the trailing interval
\* the limiter counts, open at its old end as the pruning test t > now - W is.
C2_SlidingWindowSafety ==
    \A k \in Keys : \A a \in LimiterClock :
        AdmittedIn(k, a, TheWindow) <= TheMax

\* a full window that straddles two sampled instants (not a fixed bucket),
\* with a rejected call at its end
C2_Witness ==
    \E k \in Keys :
        /\ lastCall.key = k /\ lastCall.limited
        /\ AdmittedIn(k, now, TheWindow) = TheMax
        /\ \E i, j \in DOMAIN admitted[k] :
               /\ admitted[k][i] < admitted[k][j]
               /\ admitted[k][i] > now - TheWindow
        /\ Len(admitted[k]) > TheMax

\* C3: a call answered limited does not record the attempt: the key's record
\* is then exactly the pruned list; a call answered not-limited leaves the
\* pruned list with the current time appended; no other key's record changes.
C3_LimitedCallNotRecorded ==
    lastCall.key \in Keys =>
        LET k == lastCall.key
            survivors == recent_requests(lastCall.before, lastCall.at - TheWindow)
        IN  /\ lastCall.limited => _rate_limit_store[k] = survivors
            /\ ~lastCall.limited => _rate_limit_store[k] = Append(survivors, lastCall.at)

\* a rejected call at an instant that no stored timestamp carries: the full
\* record is left as it was
C3_Witness ==
    /\ lastCall.key \in Keys
    /\ lastCall.limited
    /\ Len(_rate_limit_store[lastCall.key]) = TheMax
    /\ \A i \in DOMAIN _rate_limit_store[lastCall.key] :
           _rate_limit_store[lastCall.key][i] < lastCall.at

\* C4 as stated: in every reachable state no stored timestamp is older than
\* now - window_seconds.
C4_NeverStale ==
    \A k \in Keys : \A i \in DOMAIN _rate_limit_store[k] :
        _rate_limit_store[k][i] >= now - TheWindow

\* C4 amended: pruning is lazy.  Every stored timestamp of a key is newer
\* than (the time of that key's last check) - window_seconds; between checks
\* the record keeps timestamps that have meanwhile left the window.
C4_FreshAsOfLastCheck ==
    \A k \in Keys : \A i \in DOMAIN _rate_limit_store[k] :
        /\ calls[k].n > 0
        /\ _rate_limit_store[k][i] > calls[k].last - TheWindow

\* a record that was pruned by a check and has since gone stale
C4_Witness ==
    \E k \in Keys :
        /\ Len(lastCall.before) > Len(recent_requests(lastCall.before, lastCall.at - TheWindow))
        /\ lastCall.key = k
        /\ \E i \in DOMAIN _rate_limit_store[k] : _rate_limit_store[k][i] < now - TheWindow

-----------------------------------------------------------------------------
(* The service: api/v1/auth.py, api/deps.py, services/auth_service.py *)

\* which of email and username a row holds (observer)
Taken(email, username) ==
    LET e == get_by_email(email) # NoUser
        u == get_by_username(username) # NoUser
    IN  IF e /\ u THEN "both" ELSE IF e THEN "email" ELSE IF u THEN "username" ELSE ""

\* auth.py:111-134 up to the first await: the rate-limit gate of register
StartRegister(s, ip, email, username, password) ==
    /\ Free(s)
    /\ LET r == check_rate_limit(ip, RegisterQuota)
           log == Log(reqlog, "register", now)
           q == [Idle EXCEPT !.ep = "register", !.ip = ip, !.at = now, !.ran = TRUE,
                             !.prior = Prior(log, "register", now, now),
                             !.window = Window(r, RegisterQuota.window_seconds, now)]
       IN  /\ Gate(r, RegisterQuota)
           /\ reqlog' = log
           /\ IF r.limited
              THEN Answer(s, [q EXCEPT !.rl = "limited"], 429, TooMany)
              ELSE Await(s, [q EXCEPT !.rl = "ok", !.pc = "get_by_email",
                                      !.email = email, !.username = username,
                                      !.password = password])
    /\ sent' = sent + 1
    /\ UNCHANGED <<now, users, cookie, limiterVars, codec, hasher, schema, boot>>

\* mutant: the email lookup reports nothing, the username check comes first
RegisterCheckEmail_skip(s) ==
    /\ req[s].pc = "get_by_email"
    /\ Await(s, [req[s] EXCEPT !.pc = "get_by_username",
                               !.taken = Taken(req[s].email, req[s].username)])
    /\ UNCHANGED <<now, _rate_limit_store, admitted, users, cookie, reqlog, sent,
                   limiterVars, codec, hasher, schema, boot>>

\* auth_service.py:55-58, answered 409 by auth.py:137-142
RegisterCheckEmail(s) ==
    /\ req[s].pc = "get_by_email"
    /\ LET q == [req[s] EXCEPT !.taken = Taken(req[s].email, req[s].username)]
       IN  IF get_by_email(req[s].email) # NoUser
           THEN Answer(s, q, 409, "Email already registered")
           ELSE Await(s, [q EXCEPT !.pc = "get_by_username"])
    /\ UNCHANGED <<now, _rate_limit_store, admitted, users, cookie, reqlog, sent,
                   limiterVars, codec, hasher, schema, boot>>

\* auth_service.py:60-63
RegisterCheckUsername(s) ==
    /\ req[s].pc = "get_by_username"
    /\ IF get_by_username(req[s].username) # NoUser
       THEN Answer(s, req[s], 409, "Username already taken")
       ELSE Await(s, [req[s] EXCEPT !.pc = "create_user"])
    /\ UNCHANGED <<now, _rate_limit_store, admitted, users, cookie, reqlog, sent,
                   limiterVars, codec, hasher, schema, boot>>

\* auth_service.py:65-67, repositories/user.py:32-47, base.py:42-48: the
\* INSERT.  The unique indexes on email and username reject a duplicate with
\* an IntegrityError, which register does not catch (it is no ValueError).
RegisterCreate(s) ==
    /\ req[s].pc = "create_user"
    /\ \E salt \in Salts :
         LET id == Len(users) + 1
             row == NewUser(id, req[s].email, req[s].username,
                            hash_password(req[s].password, salt))
         IN  IF IntegrityError(users, id, req[s].email, req[s].username)
             THEN /\ Answer(s, req[s], 500, "Internal Server Error")
                  /\ users' = users
             ELSE /\ Answer(s, [req[s] EXCEPT !.uid = id], 201, "")
                  /\ users' = Append(users, row)
    /\ UNCHANGED <<now, _rate_limit_store, admitted, cookie, reqlog, sent, limiterVars, codec, hasher, schema, boot>>

\* auth.py:150-174 up to the first await: the rate-limit gate of login
StartLogin(s, ip, username, password) ==
    /\ Free(s)
    /\ LET r == check_rate_limit(ip, LoginQuota)
           log == Log(reqlog, "login", now)
           q == [Idle EXCEPT !.ep = "login", !.ip = ip, !.at = now, !.ran = TRUE,
                             !.prior = Prior(log, "login", now, now),
                             !.window = Window(r, LoginQuota.window_seconds, now)]
       IN  /\ Gate(r, LoginQuota)
           /\ reqlog' = log
           /\ IF r.limited
              THEN Answer(s, [q EXCEPT !.rl = "limited"], 429, TooMany)
              ELSE Await(s, [q EXCEPT !.rl = "ok", !.pc = "authenticate_user",
                                      !.username = username, !.password = password])
    /\ sent' = sent + 1
    /\ UNCHANGED <<now, users, cookie, limiterVars, codec, hasher, schema, boot>>

\* mutant: the password is not verified
authenticate_user_unverified(username, password) == get_by_username(username)

\* auth_service.py:13-36
authenticate_user(username, password) ==
    LET user == get_by_username(username)
    IN  IF user = NoUser THEN NoUser
        ELSE IF ~verify_password(password, user.hashed_password) THEN NoUser
        ELSE user

\* auth.py:174-198: the lookup returned; 401, or the token and the cookie
LoginAuthenticate(s) ==
    /\ req[s].pc = "authenticate_user"
    /\ LET user == authenticate_user(req[s].username, req[s].password)
           row == get_by_username(req[s].username)
           q == [req[s] EXCEPT !.found = (row # NoUser), !.active = row.is_active]
           access_token == create_access_token(str(user.id), NoDelta, now)
           header == set_cookie(COOKIE_NAME, access_token, TRUE, COOKIE_MAX_AGE, "lax")
       IN  IF user = NoUser
           THEN /\ Answer(s, q, 401, "Incorrect username or password")
                /\ cookie' = cookie
           ELSE /\ Answer(s, [q EXCEPT !.uid = user.id, !.issued = access_token,
                                       !.set_cookie = TRUE, !.header = header],
                          200, "")
                /\ cookie' = Jar(cookie, header)
    /\ UNCHANGED <<now, _rate_limit_store, admitted, users, reqlog, sent, limiterVars, codec, hasher, schema, boot>>

\* auth.py:206-218: delete_cookie
Logout(s) ==
    /\ Free(s)
    /\ Answer(s, [Idle EXCEPT !.ep = "logout", !.at = now, !.ran = TRUE,
                              !.header = delete_cookie(COOKIE_NAME)],
              200, "Logged out successfully")
    /\ cookie' = Jar(cookie, delete_cookie(COOKIE_NAME))
    /\ sent' = sent + 1
    /\ UNCHANGED <<now, _rate_limit_store, admitted, users, reqlog, limiterVars, codec, hasher, schema, boot>>

\* tests/backend/test_auth_service.py:183-184: an account is disabled in the
\* database, outside the service's endpoints
Deactivate(id) ==
    /\ id \in DOMAIN users
    /\ users[id].is_active
    /\ users' = [users EXCEPT ![id].is_active = FALSE]
    /\ UNCHANGED <<now, _rate_limit_store, admitted, req, resp, cookie, reqlog, sent,
                   limiterVars, codec, hasher, schema, boot>>

\* a token signed with a key that is not the server's
Forged(sub, exp) == jwt_encode([sub |-> sub, exp |-> exp], "not-the-secret")

\* a signed token whose expiry was altered afterwards
Tampered(token, seconds) == [token EXCEPT !.exp = @ + seconds]

\* mutant: the server keeps the token of the live session and accepts no
\* other, so that logout and a later login revoke the tokens issued before
get_current_user_id_session(access_token, t) ==
    IF access_token = NoToken \/ access_token # cookie
    THEN [status |-> 401, detail |-> "Not authenticated", user_id |-> 0]
    ELSE LET payload == decode_access_token(access_token, t)
         IN  IF payload.kind = "None" \/ payload.payload.sub = ""
             THEN [status |-> 401, detail |-> "Invalid token", user_id |-> 0]
             ELSE [status |-> 0, detail |-> "", user_id |-> int(payload.payload.sub)]

\* deps.py:28-58  get_current_user_id, for the token the request carries:
\* the user id, or the 401 the dependency raises
get_current_user_id(access_token, t) ==
    IF access_token = NoToken
    THEN [status |-> 401, detail |-> "Not authenticated", user_id |-> 0]
    ELSE LET payload == decode_access_token(access_token, t)
         IN  IF payload.kind = "raised"
             THEN [status |-> 500, detail |-> "Internal Server Error", user_id |-> 0]
             ELSE IF payload.kind = "None" \/ payload.payload.sub = ""
             THEN [status |-> 401, detail |-> "Invalid token", user_id |-> 0]
             ELSE [status |-> 0, detail |-> "", user_id |-> int(payload.payload.sub)]

\* A request to an endpoint that depends on get_current_user arrives:
\* get_current_user_id runs, then get_current_user awaits repo.get_by_id.
StartAuthenticated(s, ep, ip, token, password, new_password, theme) ==
    /\ Free(s)
    /\ LET id == get_current_user_id(token, now)
           q == [Idle EXCEPT !.ep = ep, !.ip = ip, !.token = token, !.at = now]
       IN  IF id.status # 0
           THEN Answer(s, q, id.status, id.detail)
           ELSE Await(s, [q EXCEPT !.pc = "get_current_user", !.uid = id.user_id,
                                   !.password = password,
                                   !.new_password = new_password, !.theme = theme])
    /\ reqlog' = IF ep \in Limited THEN Log(reqlog, ep, now) ELSE reqlog
    /\ sent' = sent + 1
    /\ UNCHANGED <<now, _rate_limit_store, admitted, users, cookie, limiterVars, codec, hasher, schema, boot>>

\* deps.py:78-94  get_current_user: the row came back
current_user(user) ==
    IF user = NoUser
    THEN [status |-> 401, detail |-> "User not found"]
    ELSE IF ~user.is_active
    THEN [status |-> 401, detail |-> "User is inactive"]
    ELSE [status |-> 0, detail |-> ""]

\* get_current_user rejects the request: the endpoint body does not run
RejectUser(s) ==
    /\ req[s].pc = "get_current_user"
    /\ LET user == get_by_id(req[s].uid)
           cu == current_user(user)
       IN  /\ cu.status # 0
           /\ Answer(s, [req[s] EXCEPT !.found = (user # NoUser),
                                       !.active = user.is_active],
                     cu.status, cu.detail)
    /\ UNCHANGED <<now, _rate_limit_store, admitted, users, cookie, reqlog, sent,
                   limiterVars, codec, hasher, schema, boot>>

\* auth.py:226-238  get_me, after get_current_user returned the user
GetMe(s) ==
    /\ req[s].pc = "get_current_user"
    /\ req[s].ep = "get_me"
    /\ LET user == get_by_id(req[s].uid)
       IN  /\ current_user(user).status = 0
           /\ Answer(s, [req[s] EXCEPT !.found = (user # NoUser), !.active = user.is_active,
                               !.ran = TRUE,
                               !.theme_preference = user.theme_preference],
                     200, "")
    /\ UNCHANGED <<now, _rate_limit_store, admitted, users, cookie, reqlog, sent,
                   limiterVars, codec, hasher, schema, boot>>

\* auth.py:280-319  change_password, after get_current_user returned the
\* user and up to the await of repo.change_password
ChangePassword(s) ==
    /\ req[s].pc = "get_current_user"
    /\ req[s].ep = "change_password"
    /\ LET user == get_by_id(req[s].uid)
           r == check_rate_limit(req[s].ip, PasswordQuota)
           q == [req[s] EXCEPT !.found = (user # NoUser), !.active = user.is_active,
                               !.ran = TRUE,
                               !.prior = Prior(reqlog, "change_password", req[s].at, now),
                               !.window = Window(r, PasswordQuota.window_seconds, now)]
       IN  /\ current_user(user).status = 0
           /\ Gate(r, PasswordQuota)
           /\ IF r.limited
              THEN Answer(s, [q EXCEPT !.rl = "limited"], 429, TooMany)
              ELSE IF ~verify_password(req[s].password, user.hashed_password)
              THEN Answer(s, [q EXCEPT !.rl = "ok"], 400, "Incorrect current password")
              ELSE \E salt \in Salts :
                     Await(s, [q EXCEPT !.rl = "ok", !.pc = "update",
                                        !.new_hashed = hash_password(req[s].new_password, salt)])
    /\ UNCHANGED <<now, users, cookie, reqlog, sent, limiterVars, codec, hasher, schema, boot>>

\* auth.py:333-356  update_theme_preference, after get_current_user returned
\* the user and up to the await of repo.update_user.  A body that does not
\* validate as ThemePreferenceUpdate is answered 422 once the dependencies
\* are solved: the endpoint body, and with it the rate limiter, does not run.
UpdateThemePreference(s) ==
    /\ req[s].pc = "get_current_user"
    /\ req[s].ep = "update_theme_preference"
    /\ LET user == get_by_id(req[s].uid)
           r == check_rate_limit(req[s].ip, ThemeQuota)
           v == [req[s] EXCEPT !.found = (user # NoUser), !.active = user.is_active]
           q == [v EXCEPT !.ran = TRUE,
                          !.prior = Prior(reqlog, "update_theme_preference",
                                          req[s].at, now),
                          !.window = Window(r, ThemeQuota.window_seconds, now)]
       IN  /\ current_user(user).status = 0
           /\ IF ~ThemePreferenceUpdate(req[s].theme)
              THEN /\ Answer(s, v, 422, "Input should be 'light', 'dark' or 'system'")
                   /\ UNCHANGED <<_rate_limit_store, admitted>>
              ELSE /\ Gate(r, ThemeQuota)
                   /\ IF r.limited
                      THEN Answer(s, [q EXCEPT !.rl = "limited"], 429, TooMany)
                      ELSE Await(s, [q EXCEPT !.rl = "ok", !.pc = "update"])
    /\ UNCHANGED <<now, users, cookie, reqlog, sent, limiterVars, codec, hasher, schema, boot>>

\* A PUT /me arrives: the dependencies of update_me run as for the other
\* endpoints behind get_current_user.  email and full_name are the fields of
\* UserUpdate, "" standing for a field that is None.
StartUpdateMe(s, ip, token, email, full_name) ==
    /\ Free(s)
    /\ LET id == get_current_user_id(token, now)
           q == [Idle EXCEPT !.ep = "update_me", !.ip = ip, !.token = token, !.at = now]
       IN  IF id.status # 0
           THEN Answer(s, q, id.status, id.detail)
           ELSE Await(s, [q EXCEPT !.pc = "get_current_user", !.uid = id.user_id,
                                   !.email = email, !.full_name = full_name])
    /\ sent' = sent + 1
    /\ UNCHANGED <<now, _rate_limit_store, admitted, users, cookie, reqlog,
                   limiterVars, codec, hasher, schema, boot>>

\* auth.py:246-272  update_me, after get_current_user returned the user: the
\* fields that are not None are written, and with none the profile is
\* returned as it is
UpdateMe(s) ==
    /\ req[s].pc = "get_current_user"
    /\ req[s].ep = "update_me"
    /\ LET user == get_by_id(req[s].uid)
           q == [req[s] EXCEPT !.found = (user # NoUser), !.active = user.is_active,
                               !.ran = TRUE]
       IN  /\ current_user(user).status = 0
           /\ IF req[s].email = "" /\ req[s].full_name = ""
              THEN Answer(s, [q EXCEPT !.theme_preference = user.theme_preference],
                          200, "")
              ELSE Await(s, [q EXCEPT !.pc = "update"])
    /\ UNCHANGED <<now, _rate_limit_store, admitted, users, cookie, reqlog, sent,
                   limiterVars, codec, hasher, schema, boot>>

\* mutant: the UPDATE does not reach the row
Updated_lost(row, r) == row

\* mutant: a field that is None is written too
Updated_all(row, r) ==
    CASE r.ep = "change_password" -> [row EXCEPT !.hashed_password = r.new_hashed]
      [] r.ep = "update_theme_preference" -> [row EXCEPT !.theme_preference = r.theme]
      [] r.ep = "update_me" -> [row EXCEPT !.email = r.email, !.full_name = r.full_name]

\* the row of request r after its UPDATE: hashed_password for
\* change_password, theme_preference for the theme, the given fields for
\* update_me
Updated(row, r) ==
    CASE r.ep = "change_password" -> [row EXCEPT !.hashed_password = r.new_hashed]
      [] r.ep = "update_theme_preference" -> [row EXCEPT !.theme_preference = r.theme]
      [] r.ep = "update_me" ->
            [row EXCEPT !.email = IF r.email # "" THEN r.email ELSE @,
                        !.full_name = IF r.full_name # "" THEN r.full_name ELSE @]

\* repositories/base.py:50-56  update: the UPDATE of the caller's row.  A
\* new email that another row holds is refused by the unique index with an
\* IntegrityError, which no handler catches.
Update(s) ==
    /\ req[s].pc = "update"
    /\ LET row == Updated(users[req[s].uid], req[s])
       IN  IF /\ req[s].ep = "update_me"
              /\ IntegrityError(users, row.id, row.email, row.username)
           THEN /\ users' = users
                /\ Answer(s, req[s], 500, "Internal Server Error")
           ELSE /\ users' = [users EXCEPT ![req[s].uid] = row]
                /\ Answer(s, [req[s] EXCEPT !.theme_preference =
                                  IF req[s].ep = "change_password"
                                  THEN "" ELSE row.theme_preference], 200,
                          IF req[s].ep = "change_password"
                          THEN "Password changed successfully" ELSE "")
    /\ UNCHANGED <<now, _rate_limit_store, admitted, cookie, reqlog, sent,
                   limiterVars, codec, hasher, schema, boot>>

\* the state after start-up that the service specifications share
Init ==
    /\ now = 0
    /\ _rate_limit_store = [k \in Keys |-> <<>>]
    /\ admitted = [k \in Keys |-> <<>>]
    /\ limit = [max_requests |-> 0, window_seconds |-> 0]
    /\ calls = [k \in Keys |-> NoCalls]
    /\ lastCall = NoCall
    /\ InitService
    /\ codec = NoCodec
    /\ hasher = NoHasher
    /\ schema = Migrated
    /\ boot = NoBoot

-----------------------------------------------------------------------------
(* SpecQuota: one client (one address) registers, logs in and sends         *)
(* password and theme changes, up to two requests in flight at a time.      *)

\* 0 and 30 share a rate-limit window; at 60 a request made at 0 has left
\* the window and one made at 30 has not
QuotaClock == {0, 30, 60}

AdvanceQuota ==
    /\ Tick(QuotaClock)
    /\ UNCHANGED <<_rate_limit_store, admitted, limiterVars, serviceVars, codec, hasher, schema, boot>>

NextQuota ==
    \/ AdvanceQuota
    \/ \E s \in Slots, ip \in IPs :
          StartRegister(s, ip, "a@x.com", "alice", "pw12345678")
    \/ \E s \in Slots : RegisterCheckEmail(s)
    \/ \E s \in Slots : RegisterCheckUsername(s)
    \/ \E s \in Slots : RegisterCreate(s)
    \/ \E s \in Slots, ip \in IPs :
          StartLogin(s, ip, "alice", "pw12345678")
    \/ \E s \in Slots : LoginAuthenticate(s)
    \/ \E s \in Slots, ip \in IPs :
          \/ \E password \in Passwords :
                StartAuthenticated(s, "change_password", ip, cookie,
                                   password, "pw12345678", "")
          \/ StartAuthenticated(s, "update_theme_preference", ip, cookie, "", "", "dark")
    \/ \E s \in Slots : ChangePassword(s)
    \/ \E s \in Slots : UpdateThemePreference(s)
    \/ \E s \in Slots : Update(s)

SpecQuota == Init /\ [][NextQuota]_vars

-----------------------------------------------------------------------------
(* Claims about the quotas of the endpoints, checked under SpecQuota *)

\* C5: quotas are per endpoint.  A request is answered 429 only if the client
\* has sent at least that endpoint's max_requests other requests to the same
\* endpoint in the trailing 60 seconds, whatever it sent to other endpoints.
C5_QuotaPerEndpoint ==
    resp.rl = "limited" => resp.prior >= Quota(resp.ep).max_requests

\* the key a rate-limited endpoint is counted under
KeyOf(r) == RateKey(r.ip, Quota(r.ep).endpoint)

\* C6: the rate-limit map is safe under concurrent requests.  With requests
\* of the same key in flight together, (i) every record equals the record
\* that the answers given so far produce one at a time (no admitted
\* timestamp is lost), (ii) a call is admitted only while its key has at most
\* max_requests admitted calls in the trailing window, itself included, and
\* (iii) a call is rejected only when the window is full.
C6_ConcurrentChecksSafe ==
    /\ \A k \in Keys : _rate_limit_store[k] = admitted[k]
    /\ \A s \in Slots :
          req[s].rl = "ok" => req[s].window <= Quota(req[s].ep).max_requests
    /\ resp.rl = "ok" => resp.window <= Quota(resp.ep).max_requests
    /\ resp.rl = "limited" => resp.window >= Quota(resp.ep).max_requests

\* two password changes sent at the same instant, in flight together, both
\* past the gate, the record of their key holding both
C6_Witness ==
    \E s, o \in Slots :
        /\ s # o
        /\ req[s].ep = "change_password" /\ req[o].ep = "change_password"
        /\ req[s].pc = "update" /\ req[o].pc = "update"
        /\ req[s].at = req[o].at
        /\ req[s].window = 1 /\ req[o].window = 2
        /\ Len(_rate_limit_store[KeyOf(req[s])]) = 2

-----------------------------------------------------------------------------
(* SpecSession: one client registers and logs in, the account may be        *)
(* disabled, and the client presents tokens until after they expire.        *)

\* 1800 is the expiry second of a token issued at 0, 1801 the second after
SessionClock == {0, 1800, 1801}

AdvanceSession ==
    /\ Tick(SessionClock)
    /\ UNCHANGED <<_rate_limit_store, admitted, limiterVars, serviceVars, codec, hasher, schema, boot>>

\* test_auth_service.py:165: a token of the server for a user id that has no
\* row (the account is gone from the database)
Orphan == create_access_token("2", NoDelta, 0)

\* what a client can send as its access_token cookie: nothing, a string that
\* is no JWT, the token it holds, that token with its expiry moved, a token
\* signed with a key that is not the server's, and a token of a missing user
Presentable ==
    {NoToken, Garbage, cookie, Forged("1", 1801 + 3600), Orphan}
    \cup (IF cookie.typ = "jwt" THEN {Tampered(cookie, 3600)} ELSE {})

NextSession ==
    \/ AdvanceSession
    \/ \E s \in Slots, ip \in IPs :
          StartRegister(s, ip, "a@x.com", "alice", "pw12345678")
    \/ \E s \in Slots : RegisterCheckEmail(s)
    \/ \E s \in Slots : RegisterCheckUsername(s)
    \/ \E s \in Slots : RegisterCreate(s)
    \/ \E s \in Slots, ip \in IPs :
          StartLogin(s, ip, "alice", "pw12345678")
    \/ \E s \in Slots : LoginAuthenticate(s)
    \/ \E s \in Slots, ip \in IPs, token \in Presentable :
          StartAuthenticated(s, "get_me", ip, token, "", "", "")
    \/ \E s \in Slots : RejectUser(s)
    \/ \E s \in Slots : GetMe(s)
    \/ \E id \in DOMAIN users : Deactivate(id)

SpecSession == Init /\ [][NextSession]_vars

-----------------------------------------------------------------------------
(* Claims about sessions and login, checked under SpecSession *)

\* the token carries the signature the server's key gives its claims
CorrectlySigned(token) ==
    /\ token.typ = "jwt"
    /\ token.sig = HS256(token.sub, token.exp, SECRET_KEY)

\* C7: session resolution.  The body of an endpoint behind get_current_user
\* runs only if the presented token is correctly signed, its expiry is later
\* than the time of the request, and its subject is the id of an existing
\* user with is_active = true; every other request is answered 401.
C7_SessionResolution ==
    resp.ep \in Authenticated =>
        /\ resp.ran =>
              /\ CorrectlySigned(resp.token)
              /\ resp.token.exp > resp.at
              /\ resp.found /\ resp.active
              /\ str(resp.uid) = resp.token.sub
        /\ ~resp.ran => resp.status = 401

\* C8: an inactive user cannot authenticate.  A login that names a user with
\* is_active = false is not answered 200, issues no token and sets no cookie.
C8_InactiveCannotLogin ==
    (resp.ep = "login" /\ resp.found /\ ~resp.active) =>
        /\ resp.status # 200
        /\ resp.issued = NoToken
        /\ ~resp.set_cookie

\* a response of get_current_user to a token that decoded: the user is
\* missing or inactive
Unresolved(r) ==
    /\ r.pc = "done" /\ r.ep \in Authenticated
    /\ r.uid # 0 /\ ~r.ran
    /\ ~(r.found /\ r.active)

\* C11: session resolution gives the caller the same signal for a missing
\* user and for an inactive one: any two consecutive responses that reject a
\* decoded token carry the same status and the same message.
C11_SameSignal ==
    [][(Unresolved(resp) /\ Unresolved(resp')) =>
          (resp'.status = resp.status /\ resp'.detail = resp.detail)]_vars

-----------------------------------------------------------------------------
(* SpecToken: create_access_token and decode_access_token as functions of   *)
(* the subject, the lifetime and the times of issue and of decoding.        *)

Subjects == {"1", "2"}

\* expires_delta: not passed, a minute in the past (test_security.py:122),
\* zero, and a minute ahead
Lifetimes == {NoDelta, Delta(-60), Delta(0), Delta(60)}

\* a minute and the default lifetime after 0, with the seconds around them
TokenClock == {0, 59, 60, 61, 1799, 1800, 1801}

\* the lifetime the caller of create_access_token asked for, in seconds
Lifetime(expires_delta) ==
    IF expires_delta.given THEN expires_delta.seconds
    ELSE ACCESS_TOKEN_EXPIRE_MINUTES * 60

InitToken ==
    /\ now = 0
    /\ _rate_limit_store = [k \in Keys |-> <<>>]
    /\ admitted = [k \in Keys |-> <<>>]
    /\ limit = [max_requests |-> 0, window_seconds |-> 0]
    /\ calls = [k \in Keys |-> NoCalls]
    /\ lastCall = NoCall
    /\ InitService
    /\ \E sub \in Subjects, expires_delta \in Lifetimes :
          codec = [NoCodec EXCEPT !.sub = sub, !.expires_delta = expires_delta]
    /\ hasher = NoHasher
    /\ schema = Migrated
    /\ boot = NoBoot

AdvanceToken ==
    /\ Tick(TokenClock)
    /\ UNCHANGED <<_rate_limit_store, admitted, limiterVars, serviceVars, codec, hasher, schema, boot>>

\* create_access_token({"sub": sub}, expires_delta) at time now
Issue ==
    /\ codec.token = NoToken
    /\ codec' = [codec EXCEPT
          !.token = create_access_token(codec.sub, codec.expires_delta, now),
          !.issued = now]
    /\ UNCHANGED <<now, _rate_limit_store, admitted, limiterVars, serviceVars,
                   hasher, schema, boot>>

\* decode_access_token(token) at time now, for the token that was issued
DecodeOwn ==
    /\ codec.token # NoToken
    /\ LET r == decode_access_token(codec.token, now)
       IN  codec' = [codec EXCEPT
              !.at = now, !.own = r,
              !.seen = IF codec.token.exp < now
                       THEN [@ EXCEPT !["expired"] = r] ELSE @]
    /\ UNCHANGED <<now, _rate_limit_store, admitted, limiterVars, serviceVars,
                   hasher, schema, boot>>

\* decode_access_token of a string that is no JWT
DecodeMalformed ==
    /\ codec' = [codec EXCEPT !.seen["malformed"] = decode_access_token(Garbage, now)]
    /\ UNCHANGED <<now, _rate_limit_store, admitted, limiterVars, serviceVars,
                   hasher, schema, boot>>

\* decode_access_token of a token whose signature is not the server's for
\* its claims: signed with another key, or altered after it was signed
DecodeBadSignature ==
    /\ codec.token # NoToken
    /\ \E token \in {Forged(codec.sub, codec.token.exp), Tampered(codec.token, 3600)} :
          codec' = [codec EXCEPT !.seen["signature"] = decode_access_token(token, now)]
    /\ UNCHANGED <<now, _rate_limit_store, admitted, limiterVars, serviceVars,
                   hasher, schema, boot>>

NextToken ==
    \/ AdvanceToken
    \/ Issue
    \/ DecodeOwn
    \/ DecodeMalformed
    \/ DecodeBadSignature

SpecToken == InitToken /\ [][NextToken]_vars

-----------------------------------------------------------------------------
(* Claims about the token codec, checked under SpecToken *)

\* what decode_access_token returns for a token it does not accept
None == [kind |-> "None", payload |-> NoPayload]

\* C9: token round trip over time.  Decoding the token created for subject s
\* with lifetime ttl gives a claim set with sub = s at every time before
\* issue time + ttl and gives None at every time after issue time + ttl.
C9_RoundTripOverTime ==
    codec.own # NoOutcome =>
        LET expiry == codec.issued + Lifetime(codec.expires_delta)
        IN  /\ codec.at < expiry =>
                  (codec.own.kind = "payload" /\ codec.own.payload.sub = codec.sub)
            /\ codec.at > expiry => codec.own = None

\* C10: decode_access_token collapses every failure to one outcome.  For a
\* malformed token, a token with a wrong signature and an expired token it
\* returns None, the same value for the three, and raises nothing.
C10_FailuresCollapse ==
    \A c \in DOMAIN codec.seen :
        codec.seen[c] # NoOutcome => codec.seen[c] = None

\* the three failures have each been decoded, the expired token being one
\* this service issued
C10_Witness ==
    /\ \A c \in DOMAIN codec.seen : codec.seen[c] = None
    /\ CorrectlySigned(codec.token)
    /\ codec.token.exp < codec.at

-----------------------------------------------------------------------------
(* SpecAccounts: clients register accounts over two emails and two          *)
(* usernames; alice logs in, edits her profile, changes her password and    *)
(* her theme; up to two requests in flight at a time, all of them within    *)
(* one second (the clock stands still).                                     *)

\* the bodies of PUT /me: a new email, a new full name, and no field at all
ProfileUpdates ==
    {<<email, "">> : email \in Emails} \cup {<<"", "Al">>, <<"", "">>}

NextAccounts ==
    \/ \E s \in Slots, ip \in IPs, email \in Emails, username \in Usernames :
          StartRegister(s, ip, email, username, "pw12345678")
    \/ \E s \in Slots : RegisterCheckEmail(s)
    \/ \E s \in Slots : RegisterCheckUsername(s)
    \/ \E s \in Slots : RegisterCreate(s)
    \/ \E s \in Slots, ip \in IPs :
          StartLogin(s, ip, "alice", "pw12345678")
    \/ \E s \in Slots : LoginAuthenticate(s)
    \/ \E s \in Slots, ip \in IPs, u \in ProfileUpdates :
          StartUpdateMe(s, ip, cookie, u[1], u[2])
    \/ \E s \in Slots : UpdateMe(s)
    \/ \E s \in Slots, ip \in IPs :
          \/ StartAuthenticated(s, "change_password", ip, cookie,
                                "pw12345678", "pw12345678", "")
          \/ StartAuthenticated(s, "update_theme_preference", ip, cookie, "", "", "dark")
    \/ \E s \in Slots : ChangePassword(s)
    \/ \E s \in Slots : UpdateThemePreference(s)
    \/ \E s \in Slots : Update(s)

SpecAccounts == Init /\ [][NextAccounts]_vars

-----------------------------------------------------------------------------
(* Claims about the accounts, checked under SpecAccounts *)

\* C12: exactly one User per email and per username.  In every state reached
\* by interleaved register, update_me, change_password and theme requests no
\* two rows hold the same email and no two hold the same username.
C12_UniqueEmailAndUsername ==
    \A i, j \in DOMAIN users :
        i # j => (users[i].email # users[j].email
                  /\ users[i].username # users[j].username)

\* two accounts exist and the unique index has just refused a PUT /me that
\* asked for the email of the other account
C12_Witness ==
    /\ Len(users) = 2
    /\ resp.ep = "update_me" /\ resp.status = 500

\* this step is the answer to the request of slot s, which is to endpoint ep
Answered(s, ep) ==
    /\ req[s].ep = ep /\ req[s].pc # "idle"
    /\ req'[s].pc = "idle"

\* C13: a registration whose email or username a row holds when
\* register_user looks them up is answered 409; with the email (or both)
\* held the cause reported is 'Email already registered', with only the
\* username held it is 'Username already taken'; and every registration
\* that is not answered 201 leaves the users table as it was.
C13_ConflictEmailFirst ==
    [][\A s \in Slots : Answered(s, "register") =>
          /\ resp'.taken \in {"email", "both"} =>
                (resp'.status = 409 /\ resp'.detail = "Email already registered")
          /\ resp'.taken = "username" =>
                (resp'.status = 409 /\ resp'.detail = "Username already taken")
          /\ resp'.status # 201 => users' = users]_vars

\* a registration whose email and username were both taken was told that the
\* email is registered
C13_Witness ==
    /\ resp.ep = "register" /\ resp.taken = "both"
    /\ resp.status = 409 /\ resp.detail = "Email already registered"
    /\ Len(users) = 2

\* C14: a registration is answered 201, 409 or (by the rate limiter) 429: a
\* duplicate that passed the pre-check while another registration was in
\* flight is a Conflict too, never a raw storage error.
C14_RaceIsConflict ==
    resp.ep = "register" => resp.status \in {201, 409, 429}

\* C17: a registration answered 201 has added one row, which holds the
\* request's email and username, is_active = true, theme_preference =
\* "system" and a hashed_password that is not the plaintext and verifies
\* against it.
C17_RegisterCreatesUser ==
    [][\A s \in Slots : (Answered(s, "register") /\ resp'.status = 201) =>
          /\ Len(users') = Len(users) + 1
          /\ resp'.uid = Len(users')
          /\ LET row == users'[Len(users')]
             IN  /\ row.id = resp'.uid
                 /\ row.email = req[s].email /\ row.username = req[s].username
                 /\ row.is_active /\ row.theme_preference = "system"
                 /\ row.hashed_password # Plain(req[s].password)
                 /\ verify_password(req[s].password, row.hashed_password)]_vars

\* the second account has just been created
C17_Witness ==
    /\ resp.ep = "register" /\ resp.status = 201 /\ resp.uid = 2
    /\ Len(users) = 2
    /\ users[2].is_active /\ users[2].theme_preference = "system"

-----------------------------------------------------------------------------
(* SpecLogin: alice and bob register, each with a password of their own,    *)
(* and clients log in under either username with either password, before    *)
(* and after the registrations; up to two requests in flight at a time.     *)

\* the email and the password each username registers with
RegisteredEmail == [u \in Usernames |-> IF u = "alice" THEN "a@x.com" ELSE "b@x.com"]
RegisteredPassword ==
    [u \in Usernames |-> IF u = "alice" THEN "pw12345678" ELSE "newpassword456"]

NextLogin ==
    \/ \E s \in Slots, ip \in IPs, u \in Usernames :
          StartRegister(s, ip, RegisteredEmail[u], u, RegisteredPassword[u])
    \/ \E s \in Slots : RegisterCheckEmail(s)
    \/ \E s \in Slots : RegisterCheckUsername(s)
    \/ \E s \in Slots : RegisterCreate(s)
    \/ \E s \in Slots, ip \in IPs, u \in Usernames, password \in Passwords :
          StartLogin(s, ip, u, password)
    \/ \E s \in Slots : LoginAuthenticate(s)

SpecLogin == Init /\ [][NextLogin]_vars

-----------------------------------------------------------------------------
(* Claims about logging in, checked under SpecLogin *)

\* some row holds the username and the password verifies against its hash
Verifies(username, password) ==
    \E i \in DOMAIN users :
        /\ users[i].username = username
        /\ verify_password(password, users[i].hashed_password)

\* C15: authenticate_user(username, password) returns the row of that
\* username exactly when one exists and the password verifies against its
\* stored hash, and None otherwise; login answers an absent username and a
\* wrong password with the same 401 'Incorrect username or password', no
\* token and no cookie, and answers 200 only for the user authenticated.
C15_AuthenticateExact ==
    [][/\ \A u \in Usernames, p \in Passwords :
             /\ Verifies(u, p) =>
                   (authenticate_user(u, p).username = u
                    /\ authenticate_user(u, p) \in {users[i] : i \in DOMAIN users})
             /\ ~Verifies(u, p) => authenticate_user(u, p) = NoUser
       /\ \A s \in Slots :
             (Answered(s, "login") /\ req[s].pc = "authenticate_user") =>
                IF Verifies(req[s].username, req[s].password)
                THEN /\ resp'.status = 200
                     /\ get_by_id(resp'.uid).username = req[s].username
                ELSE /\ resp'.status = 401
                     /\ resp'.detail = "Incorrect username or password"
                     /\ resp'.issued = NoToken /\ ~resp'.set_cookie
                     /\ cookie' = cookie]_vars

\* alice has logged in, and then a login under a username that exists was
\* refused for its password
C15_Witness ==
    /\ cookie # NoToken
    /\ resp.ep = "login" /\ resp.status = 401 /\ resp.found

\* C16: once a username is registered, a login (admitted by the rate
\* limiter) with that username and the password it registered with is
\* answered 200 with a token and a cookie, and get_current_user resolves
\* that token to the registered row (same id, same username); a login with
\* that username and any other password is answered 401 'Incorrect username
\* or password'.
C16_RegisterLoginRoundTrip ==
    [][\A s \in Slots :
          (/\ Answered(s, "login") /\ req[s].pc = "authenticate_user"
           /\ get_by_username(req[s].username) # NoUser) =>
             LET row == get_by_username(req[s].username)
                 id == get_current_user_id(resp'.issued, now)
             IN  IF req[s].password = RegisteredPassword[req[s].username]
                 THEN /\ resp'.status = 200 /\ resp'.set_cookie
                      /\ cookie' = resp'.issued
                      /\ id.status = 0 /\ id.user_id = row.id
                      /\ current_user(get_by_id(id.user_id)).status = 0
                      /\ get_by_id(id.user_id).username = req[s].username
                 ELSE /\ resp'.status = 401
                      /\ resp'.detail = "Incorrect username or password"]_vars

\* both are registered and bob, the second account, has just logged in
C16_Witness ==
    /\ Len(users) = 2
    /\ resp.ep = "login" /\ resp.status = 200 /\ resp.uid = 2
    /\ get_current_user_id(cookie, now).user_id = 2

-----------------------------------------------------------------------------
(* SpecPassword: alice registers, logs in with either password and sends    *)
(* password changes with either password as the current and as the new     *)
(* one; up to two requests in flight at a time.                             *)

NextPassword ==
    \/ \E s \in Slots, ip \in IPs :
          StartRegister(s, ip, "a@x.com", "alice", "pw12345678")
    \/ \E s \in Slots : RegisterCheckEmail(s)
    \/ \E s \in Slots : RegisterCheckUsername(s)
    \/ \E s \in Slots : RegisterCreate(s)
    \/ \E s \in Slots, ip \in IPs, password \in Passwords :
          StartLogin(s, ip, "alice", password)
    \/ \E s \in Slots : LoginAuthenticate(s)
    \/ \E s \in Slots, ip \in IPs, password \in Passwords, new_password \in Passwords :
          StartAuthenticated(s, "change_password", ip, cookie,
                             password, new_password, "")
    \/ \E s \in Slots : ChangePassword(s)
    \/ \E s \in Slots : Update(s)

SpecPassword == Init /\ [][NextPassword]_vars

-----------------------------------------------------------------------------
(* Claims about password changes, checked under SpecPassword *)

\* the body of change_password runs in this step for the request of slot s
ChangePasswordRuns(s) ==
    /\ req[s].ep = "change_password" /\ req[s].pc = "get_current_user"
    /\ req'[s] # req[s]

\* C18: when the body of change_password runs with a current_password that
\* bcrypt does not verify against the user's stored hash, the request ends
\* there and the users table is unchanged; unless the rate limiter answered
\* it 429, the answer is 400 'Incorrect current password'.
C18_WrongCurrentPassword ==
    [][\A s \in Slots :
          (/\ ChangePasswordRuns(s)
           /\ LET h == get_by_id(req[s].uid).hashed_password
              IN  Bcrypt(req[s].password, h.salt) # h) =>
             /\ req'[s].pc = "idle"
             /\ users' = users
             /\ resp'.ep = "change_password"
             /\ resp'.rl = "ok" =>
                   (resp'.status = 400 /\ resp'.detail = "Incorrect current password")
             /\ resp'.rl # "ok" => resp'.status = 429]_vars

\* alice's password was changed, and then a change that gave the old
\* password as the current one was refused
C18_Witness ==
    /\ Len(users) = 1
    /\ users[1].hashed_password.digest = <<"salt1", "newpassword456">>
    /\ resp.ep = "change_password" /\ resp.status = 400
    /\ resp.detail = "Incorrect current password"

\* this step is the successful UPDATE of a change_password of user id
PasswordChanged(id) ==
    \E s \in Slots :
        /\ Answered(s, "change_password") /\ req[s].pc = "update"
        /\ req[s].uid = id /\ resp'.status = 200

\* C19: when a change_password with new different from current succeeds,
\* authenticate_user then returns the user for the new password and None for
\* the old one; and for an existing user the passwords that authenticate do
\* not change in any step but a successful password change of that user.
C19_NewPasswordReplacesOld ==
    [][\A id \in DOMAIN users : \A u \in Usernames : \A p, old \in Passwords :
          users[id].username = u =>
             /\ (\E s \in Slots :
                    /\ Answered(s, "change_password") /\ req[s].pc = "update"
                    /\ req[s].uid = id
                    /\ req[s].new_password = p /\ req[s].password = old
                    /\ p # old) =>
                   /\ resp'.status = 200
                   /\ authenticate_user(u, p)' = users'[id]
                   /\ authenticate_user(u, old)' = NoUser
             /\ (authenticate_user(u, p) = NoUser) # (authenticate_user(u, p)' = NoUser)
                   => PasswordChanged(id)]_vars

\* after the change alice has logged in with her new password
C19_Witness ==
    /\ Len(users) = 1
    /\ users[1].hashed_password.digest = <<"salt1", "newpassword456">>
    /\ resp.ep = "login" /\ resp.status = 200 /\ resp.uid = 1

-----------------------------------------------------------------------------
(* SpecTheme: alice registers, logs in, sets her theme to each of the three *)
(* values and to a string that is none of them, and fetches her profile;    *)
(* up to two requests in flight at a time.                                  *)

\* the bodies of PATCH /me/theme: the Literal's values and another string
ThemeInputs == Themes \cup {"invalid_theme"}

NextTheme ==
    \/ \E s \in Slots, ip \in IPs :
          StartRegister(s, ip, "a@x.com", "alice", "pw12345678")
    \/ \E s \in Slots : RegisterCheckEmail(s)
    \/ \E s \in Slots : RegisterCheckUsername(s)
    \/ \E s \in Slots : RegisterCreate(s)
    \/ \E s \in Slots, ip \in IPs :
          StartLogin(s, ip, "alice", "pw12345678")
    \/ \E s \in Slots : LoginAuthenticate(s)
    \/ \E s \in Slots, ip \in IPs :
          \/ \E theme \in ThemeInputs :
                StartAuthenticated(s, "update_theme_preference", ip, cookie,
                                   "", "", theme)
          \/ StartAuthenticated(s, "get_me", ip, cookie, "", "", "")
    \/ \E s \in Slots : UpdateThemePreference(s)
    \/ \E s \in Slots : GetMe(s)
    \/ \E s \in Slots : Update(s)

SpecTheme == Init /\ [][NextTheme]_vars

-----------------------------------------------------------------------------
(* Claims about the theme preference, checked under SpecTheme *)

\* this step is the successful UPDATE of a theme change of user id
ThemeChanged(id) ==
    \E s \in Slots :
        /\ Answered(s, "update_theme_preference") /\ req[s].pc = "update"
        /\ req[s].uid = id /\ resp'.status = 200

\* C20: every row's theme_preference is one of light, dark, system.  A theme
\* change that succeeds for t leaves t in the user's row and returns it,
\* whatever the row held before; a row's theme_preference changes in no
\* other step, and GET /me returns the row's theme_preference, so the
\* profile fetched after the change shows t.  A body whose value is not one
\* of the three is answered 422 with the users table and the rate-limit
\* store unchanged.
C20_ThemeRoundTrip ==
    [][/\ \A id \in DOMAIN users : users[id].theme_preference \in Themes
       /\ \A id \in DOMAIN users : users'[id].theme_preference \in Themes
       /\ \A s \in Slots :
             /\ (Answered(s, "update_theme_preference") /\ req[s].pc = "update") =>
                   /\ resp'.status = 200
                   /\ req[s].theme \in Themes
                   /\ users'[req[s].uid].theme_preference = req[s].theme
                   /\ resp'.theme_preference = req[s].theme
             /\ (Answered(s, "get_me") /\ resp'.status = 200) =>
                   resp'.theme_preference = users[req[s].uid].theme_preference
             /\ (/\ req[s].ep = "update_theme_preference"
                 /\ req[s].pc = "get_current_user" /\ req'[s] # req[s]
                 /\ req[s].theme \notin {"light", "dark", "system"}) =>
                   /\ req'[s].pc = "idle"
                   /\ resp'.ep = "update_theme_preference" /\ resp'.status = 422
                   /\ users' = users
                   /\ _rate_limit_store' = _rate_limit_store
       /\ \A id \in DOMAIN users :
             users'[id].theme_preference # users[id].theme_preference
                => ThemeChanged(id)]_vars

\* alice's theme was set to dark and the profile she then fetched shows it
C20_Witness ==
    /\ Len(users) = 1 /\ users[1].theme_preference = "dark"
    /\ resp.ep = "get_me" /\ resp.status = 200
    /\ resp.theme_preference = "dark"

-----------------------------------------------------------------------------
(* Claims about PUT /me, checked under SpecAccounts *)

\* the fields of a row that update_me never writes
Kept(row) ==
    <<row.id, row.username, row.hashed_password, row.is_active, row.role,
      row.theme_preference>>

\* C21: a step of update_me changes only the caller's email and full_name,
\* and of these only the fields the patch gives: a field that is None keeps
\* its value, a field that is given holds the patch's value once the request
\* is answered 200, an empty patch is answered with the users table as it
\* was, and every other row and every other field of the caller's row is
\* unchanged.
C21_UpdateOnlyGivenFields ==
    [][\A s \in Slots :
          (req[s].ep = "update_me" /\ req'[s] # req[s]) =>
             LET id == req[s].uid
             IN  /\ DOMAIN users' = DOMAIN users
                 /\ \A i \in DOMAIN users : i # id => users'[i] = users[i]
                 /\ Kept(users'[id]) = Kept(users[id])
                 /\ req[s].email = "" => users'[id].email = users[id].email
                 /\ req[s].full_name = "" =>
                       users'[id].full_name = users[id].full_name
                 /\ (req[s].email = "" /\ req[s].full_name = ""
                     /\ req[s].pc = "get_current_user") =>
                       (resp'.status = 200 /\ users' = users
                        /\ req'[s].pc = "idle")
                 /\ (req[s].pc = "update" /\ resp'.status = 200) =>
                       /\ req[s].email # "" => users'[id].email = req[s].email
                       /\ req[s].full_name # "" =>
                             users'[id].full_name = req[s].full_name]_vars

\* alice has changed her email with one patch and her full name with the
\* next, and each patch left the other field as it was
C21_Witness ==
    /\ resp.ep = "update_me" /\ resp.status = 200
    /\ Len(users) = 1
    /\ users[1].email = "b@x.com" /\ users[1].full_name = "Al"
    /\ users[1].username = "alice"

\* C22: a PUT /me whose email belongs to a different user is answered 409
\* Conflict and leaves the users table unchanged.
C22_UpdateEmailConflict ==
    [][\A s \in Slots :
          (/\ Answered(s, "update_me") /\ req[s].pc = "update"
           /\ \E i \in DOMAIN users :
                 i # req[s].uid /\ users[i].email = req[s].email) =>
             (resp'.status = 409 /\ users' = users)]_vars

-----------------------------------------------------------------------------
(* Claims about the order of the gates, checked under SpecQuota *)

\* C23: on register, login, change-password and change-theme the rate-limit
\* gate runs first: whatever the answer, and whether or not the request is
\* authenticated, the rate check was made for it.
C23_RateGateFirst ==
    (resp.pc = "done" /\ resp.ep \in Limited) => resp.rl \in {"ok", "limited"}

-----------------------------------------------------------------------------
(* A busy minute.  The state of the service after alice, from one address,  *)
(* registered, logged in, changed her theme seven times and her password    *)
(* twice (to the same password), all within second 0: nine timestamps in    *)
(* the rate-limit record the endpoints share, two in the record of          *)
(* change-password, and alice holding her session cookie.  From here every  *)
(* rate-limited endpoint can refuse a request within a few requests.        *)

Zeros(n) == [i \in 1..n |-> 0]

BusyStore ==
    [k \in Keys |->
        IF k = RateKey("10.0.0.1", NoEndpoint) THEN Zeros(9)
        ELSE IF k = RateKey("10.0.0.1", "password_change") THEN Zeros(2)
        ELSE <<>>]

InitBusy ==
    /\ now = 0
    /\ _rate_limit_store = BusyStore
    /\ admitted = BusyStore
    /\ limit = [max_requests |-> 0, window_seconds |-> 0]
    /\ calls = [k \in Keys |-> NoCalls]
    /\ lastCall = NoCall
    /\ users = <<NewUser(1, "a@x.com", "alice", hash_password("pw12345678", "salt1"))>>
    /\ req = [s \in Slots |-> Idle]
    /\ resp = Idle
    /\ cookie = create_access_token("1", NoDelta, 0)
    /\ reqlog = [ep \in Limited |->
                    CASE ep = "register" -> Zeros(1)
                      [] ep = "login" -> Zeros(1)
                      [] ep = "update_theme_preference" -> Zeros(7)
                      [] ep = "change_password" -> Zeros(2)]
    /\ sent = 0
    /\ codec = NoCodec
    /\ hasher = NoHasher
    /\ schema = Migrated
    /\ boot = NoBoot

\* at 61 every request of second 0 has left the rate-limit windows
BusyClock == {0, 61}

AdvanceBusy ==
    /\ Tick(BusyClock)
    /\ UNCHANGED <<_rate_limit_store, admitted, limiterVars, serviceVars, codec, hasher, schema, boot>>

-----------------------------------------------------------------------------
(* SpecCookie: after the busy minute clients log in under either username   *)
(* with either password and log out, in that minute and the next.           *)

NextCookie ==
    \/ AdvanceBusy
    \/ \E s \in Slots, ip \in IPs, u \in Usernames, password \in Passwords :
          StartLogin(s, ip, u, password)
    \/ \E s \in Slots : LoginAuthenticate(s)
    \/ \E s \in Slots : Logout(s)

SpecCookie == InitBusy /\ [][NextCookie]_vars

\* this step sends the response of a request to endpoint ep: a handler that
\* was waiting returns, or a request is answered as it arrives
Responds(ep) ==
    /\ resp'.ep = ep /\ resp'.pc = "done"
    /\ \/ \E s \in Slots : Answered(s, ep)
       \/ sent' = sent + 1 /\ req' = req

\* C24: a login answered 200 sets the cookie access_token, HttpOnly, max-age
\* 1800, SameSite=Lax, to the token it issued, whose subject is the id of
\* the user of that username; a login answered otherwise (401, 429) issues
\* no token and sets no cookie; logout deletes the cookie; and the client's
\* cookie changes in no other step.
C24_CookieOnSuccessfulLogin ==
    [][/\ Responds("login") =>
             IF resp'.status = 200
             THEN /\ resp'.header =
                        [key |-> "access_token", value |-> resp'.issued,
                         httponly |-> TRUE, max_age |-> 1800, samesite |-> "lax"]
                  /\ resp'.issued # NoToken
                  /\ resp'.issued.sub = str(resp'.uid)
                  /\ \E s \in Slots :
                        /\ Answered(s, "login")
                        /\ get_by_username(req[s].username).id = resp'.uid
                  /\ cookie' = resp'.issued
             ELSE /\ resp'.status \in {401, 429}
                  /\ resp'.header = NoCookie /\ resp'.issued = NoToken
                  /\ cookie' = cookie
       /\ Responds("logout") =>
             /\ resp'.header.key = "access_token" /\ resp'.header.max_age = 0
             /\ cookie' = NoToken
       /\ cookie' # cookie =>
             \/ Responds("login") /\ resp'.status = 200
             \/ Responds("logout")]_vars

\* in the next minute alice has logged in again and holds the new token
C24_Witness ==
    /\ now = 61
    /\ resp.ep = "login" /\ resp.status = 200 /\ resp.header.max_age = 1800
    /\ cookie = resp.issued /\ cookie.sub = "1"
    /\ cookie # create_access_token("1", NoDelta, 0)

-----------------------------------------------------------------------------
(* Claims about the token's lifetime, checked under SpecToken *)

\* C27: create_access_token(data, expires_delta = d) sets exp = issue time
\* + d for every d that is passed, zero and negative d included, and uses
\* the default of ACCESS_TOKEN_EXPIRE_MINUTES only when none is passed.
C27_ExpIsIssuePlusDelta ==
    codec.token # NoToken =>
        codec.token.exp = codec.issued + Lifetime(codec.expires_delta)

-----------------------------------------------------------------------------
(* SpecHasher: verify_password as a function of the plaintext and of the    *)
(* digest it is given: a digest hash_password produced, or a string that is *)
(* no bcrypt digest.                                                        *)

\* the plaintexts hashed and verified: the two passwords, the empty string
\* and a wrong password (test_security.py:48)
Plaintexts == Passwords \cup {"", "wrongpassword"}

\* the salts bcrypt.gensalt() draws here
HasherSalts == Salts \cup {"salt2"}

\* strings that are no bcrypt digest: the empty string, a word, and a
\* password that was stored as it is
Malformed ==
    {NoHash, [salt |-> "", digest |-> <<"notahash">>]}
        \cup {Plain(p) : p \in Passwords}

\* the number of verify_password calls made on one digest
MaxVerifies == 2

InitHasher ==
    /\ now = 0
    /\ _rate_limit_store = [k \in Keys |-> <<>>]
    /\ admitted = [k \in Keys |-> <<>>]
    /\ limit = [max_requests |-> 0, window_seconds |-> 0]
    /\ calls = [k \in Keys |-> NoCalls]
    /\ lastCall = NoCall
    /\ InitService
    /\ codec = NoCodec
    /\ hasher = NoHasher
    /\ schema = Migrated
    /\ boot = NoBoot

\* hash_password(password) with the salt gensalt drew
HashPassword ==
    /\ ~hasher.set
    /\ \E password \in Plaintexts, salt \in HasherSalts :
          hasher' = [hasher EXCEPT !.hashed = hash_password(password, salt),
                                   !.set = TRUE]
    /\ UNCHANGED <<now, _rate_limit_store, admitted, limiterVars, serviceVars,
                   codec, schema, boot>>

\* the digest under test is a string that did not come from hash_password
TakeMalformed ==
    /\ ~hasher.set
    /\ \E hashed \in Malformed :
          hasher' = [hasher EXCEPT !.hashed = hashed, !.set = TRUE]
    /\ UNCHANGED <<now, _rate_limit_store, admitted, limiterVars, serviceVars,
                   codec, schema, boot>>

\* verify_password(plain_password, hashed_password) is called
VerifyPassword ==
    /\ hasher.set
    /\ Len(hasher.results) < MaxVerifies
    /\ \E plain_password \in Plaintexts :
          hasher' = [hasher EXCEPT !.results =
              Append(@, [plain |-> plain_password,
                         outcome |-> verify_password_call(plain_password,
                                                          hasher.hashed)])]
    /\ UNCHANGED <<now, _rate_limit_store, admitted, limiterVars, serviceVars,
                   codec, schema, boot>>

NextHasher ==
    \/ HashPassword
    \/ TakeMalformed
    \/ VerifyPassword

SpecHasher == InitHasher /\ [][NextHasher]_vars

\* C25: verify_password never raises: for every plaintext and every digest
\* string, malformed and empty ones included, it returns a boolean, and for
\* a malformed digest the boolean is false.
C25_VerifyNeverRaises ==
    \A i \in DOMAIN hasher.results :
        LET r == hasher.results[i].outcome
        IN  /\ r.kind = "returned"
            /\ ~WellFormed(hasher.hashed) => r.value = FALSE

-----------------------------------------------------------------------------
(* SpecSchema: init_db called again and again, one call after the other, on *)
(* a database that is new, that an earlier release left behind, or that an  *)
(* earlier init_db brought up to date or was interrupted on.                *)

\* the number of init_db calls made on one database
MaxInits == 4

\* a new database file
Fresh ==
    [users |-> FALSE, theme_preference |-> 0, alembic_version |-> FALSE,
     version_num |-> ""]

\* the schemas init_db can find: new; created by a release whose User had
\* no theme_preference; either of the two after run_migrations_async
\* committed version 'base' (migrations.py:46) and went no further; and up
\* to date
Databases ==
    {Fresh,
     [Fresh EXCEPT !.users = TRUE],
     [Fresh EXCEPT !.users = TRUE, !.alembic_version = TRUE, !.version_num = "base"],
     [Migrated EXCEPT !.version_num = "base"],
     Migrated}

\* alice's row with a theme; "" where the table has no such column
Alice(theme_preference) ==
    [NewUser(1, "a@x.com", "alice", hash_password("pw12345678", "salt1"))
        EXCEPT !.theme_preference = theme_preference]

\* the rows a database of that schema can hold: none, or alice's
Rows(db) ==
    IF ~db.users THEN {<<>>}
    ELSE IF db.theme_preference = 0 THEN {<<>>, <<Alice("")>>}
    ELSE {<<>>} \cup {<<Alice(t)>> : t \in Themes}

InitSchema ==
    /\ now = 0
    /\ _rate_limit_store = [k \in Keys |-> <<>>]
    /\ admitted = [k \in Keys |-> <<>>]
    /\ limit = [max_requests |-> 0, window_seconds |-> 0]
    /\ calls = [k \in Keys |-> NoCalls]
    /\ lastCall = NoCall
    /\ req = [s \in Slots |-> Idle]
    /\ resp = Idle
    /\ cookie = NoToken
    /\ reqlog = [ep \in Limited |-> <<>>]
    /\ sent = 0
    /\ codec = NoCodec
    /\ hasher = NoHasher
    /\ schema \in Databases
    /\ users \in Rows(schema)
    /\ boot = NoBoot

\* the version strings in the order Python compares them: '0' sorts before 'b'
VersionOrder == <<"001_add_theme_preference", "base">>

\* version > current_version on str
Greater(version, current_version) ==
    \E i, j \in DOMAIN VersionOrder :
        /\ VersionOrder[i] = version /\ VersionOrder[j] = current_version
        /\ i > j

\* mutant: the column is never found
has_column_blind(db) == FALSE

\* migrations.py:85-88  pragma_table_info('users') lists theme_preference
has_column(db) == db.users /\ db.theme_preference > 0

\* what the calls leave unchanged
SchemaFrame ==
    UNCHANGED <<now, _rate_limit_store, admitted, limiterVars,
                req, resp, cookie, reqlog, sent, codec, hasher>>

\* database.py:98-99  Base.metadata.create_all: a table that is missing is
\* created from the model, with its theme_preference column; a table that
\* exists is left as it is
CreateAll ==
    /\ boot.pc = "idle" /\ boot.error = ""
    /\ boot.calls < MaxInits
    /\ schema' = IF schema.users THEN schema
                 ELSE [schema EXCEPT !.users = TRUE, !.theme_preference = 1]
    /\ boot' = [boot EXCEPT !.pc = "has_version_table"]
    /\ UNCHANGED users
    /\ SchemaFrame

\* migrations.py:33-47  alembic_version is created with 'base' when missing
EnsureVersionTable ==
    /\ boot.pc = "has_version_table"
    /\ schema' = IF schema.alembic_version THEN schema
                 ELSE [schema EXCEPT !.alembic_version = TRUE, !.version_num = "base"]
    /\ boot' = [boot EXCEPT !.pc = "current_version"]
    /\ UNCHANGED users
    /\ SchemaFrame

\* migrations.py:50-51
ReadVersion ==
    /\ boot.pc = "current_version"
    /\ boot' = [boot EXCEPT
          !.current_version = IF schema.version_num = "" THEN "base"
                              ELSE schema.version_num,
          !.pc = "migrations"]
    /\ UNCHANGED schema
    /\ UNCHANGED users
    /\ SchemaFrame

\* migrations.py:60-63, 72-75  the one migration is pending, or init_db
\* returns
SelectMigration ==
    /\ boot.pc = "migrations"
    /\ boot' = IF \/ boot.current_version = "base"
                  \/ Greater("001_add_theme_preference", boot.current_version)
               THEN [boot EXCEPT !.pc = "add_theme_preference"]
               ELSE [boot EXCEPT !.pc = "idle", !.calls = @ + 1]
    /\ UNCHANGED schema
    /\ UNCHANGED users
    /\ SchemaFrame

\* migrations.py:80-96  add_theme_preference: ALTER TABLE ... ADD COLUMN
\* theme_preference DEFAULT 'system' NOT NULL when the column is not found,
\* which gives every row the default; SQLite refuses to add a column that
\* exists
AddThemePreference ==
    /\ boot.pc = "add_theme_preference"
    /\ IF has_column(schema)
       THEN /\ boot' = [boot EXCEPT !.pc = "update_version"]
            /\ UNCHANGED <<schema, users>>
       ELSE IF schema.theme_preference > 0
       THEN /\ boot' = [boot EXCEPT !.pc = "idle", !.alters = @ + 1,
                           !.error = "OperationalError: duplicate column name"]
            /\ UNCHANGED <<schema, users>>
       ELSE /\ boot' = [boot EXCEPT !.pc = "update_version", !.alters = @ + 1]
            /\ schema' = [schema EXCEPT !.theme_preference = @ + 1]
            /\ users' = [i \in DOMAIN users |->
                            [users[i] EXCEPT !.theme_preference = "system"]]
    /\ SchemaFrame

\* migrations.py:66-71  the version is recorded and init_db returns
UpdateVersion ==
    /\ boot.pc = "update_version"
    /\ schema' = [schema EXCEPT !.version_num =
                     IF @ = "" THEN @ ELSE "001_add_theme_preference"]
    /\ boot' = [boot EXCEPT !.pc = "idle", !.calls = @ + 1]
    /\ UNCHANGED users
    /\ SchemaFrame

NextSchema ==
    \/ CreateAll
    \/ EnsureVersionTable
    \/ ReadVersion
    \/ SelectMigration
    \/ AddThemePreference
    \/ UpdateVersion

SpecSchema == InitSchema /\ [][NextSchema]_vars

-----------------------------------------------------------------------------
(* SpecRetry: SpecLimiter with a clock that keeps moving through its        *)
(* instants and clients that keep calling: a call that stays possible is    *)
(* eventually made.                                                         *)

SpecRetry ==
    /\ SpecLimiter
    /\ WF_vars(AdvanceLimiter)
    /\ \A key \in Keys : WF_vars(Call(key))

\* the oldest timestamp of a record
Oldest(requests) ==
    CHOOSE t \in {requests[i] : i \in DOMAIN requests} :
        \A i \in DOMAIN requests : t <= requests[i]

\* the last instant at which the clock is sampled
LastInstant == CHOOSE t \in LimiterClock : \A u \in LimiterClock : u <= t

\* the last call was of key k and was answered limited, and the clock still
\* has an instant past the window of every timestamp recorded for k
Blocked(k) ==
    /\ lastCall.key = k /\ lastCall.limited
    /\ \A i \in DOMAIN _rate_limit_store[k] :
          _rate_limit_store[k][i] + TheWindow < LastInstant

\* C28: rejected attempts never prolong a block.  A call made later than
\* window_seconds after the oldest timestamp recorded for its key is
\* answered not-limited, however many calls were answered limited before;
\* and a client that is blocked and keeps retrying is eventually admitted.
C28_RejectedNeverProlong ==
    /\ [](lastCall.key \in Keys =>
            ((/\ lastCall.before # <<>>
              /\ lastCall.at > Oldest(lastCall.before) + TheWindow)
                => ~lastCall.limited))
    /\ \A k \in Keys :
          Blocked(k) ~> (lastCall.key = k /\ ~lastCall.limited)

\* after two rejected attempts in the window a call past the window of the
\* oldest recorded timestamp has been admitted
C28_Witness ==
    \E k \in Keys :
        /\ lastCall.key = k /\ ~lastCall.limited
        /\ lastCall.before # <<>>
        /\ lastCall.at > Oldest(lastCall.before) + TheWindow
        /\ calls[k].n - calls[k].ok >= 2

-----------------------------------------------------------------------------
(* SpecRevoke: alice registered and logged in at second 0, and a copy of    *)
(* the token that login issued was kept.  She then logs out, logs in again  *)
(* with either password, changes her password, her email and her theme; the *)
(* account may be disabled; and the kept token is presented to GET /me,     *)
(* until the second after it expires.  One request at a time.               *)

\* the token the login of second 0 issued to alice
Captured == create_access_token("1", NoDelta, 0)

RevokeStore ==
    [k \in Keys |-> IF k = RateKey("10.0.0.1", NoEndpoint) THEN Zeros(2) ELSE <<>>]

InitRevoke ==
    /\ now = 0
    /\ _rate_limit_store = RevokeStore
    /\ admitted = RevokeStore
    /\ limit = [max_requests |-> 0, window_seconds |-> 0]
    /\ calls = [k \in Keys |-> NoCalls]
    /\ lastCall = NoCall
    /\ users = <<NewUser(1, "a@x.com", "alice", hash_password("pw12345678", "salt1"))>>
    /\ req = [s \in Slots |-> Idle]
    /\ resp = Idle
    /\ cookie = Captured
    /\ reqlog = [ep \in Limited |->
                    IF ep \in {"register", "login"} THEN Zeros(1) ELSE <<>>]
    /\ sent = 0
    /\ codec = NoCodec
    /\ hasher = NoHasher
    /\ schema = Migrated
    /\ boot = NoBoot

\* 1800 is the expiry second of the kept token, 1801 the second after
RevokeClock == {0, 1800, 1801}

AdvanceRevoke ==
    /\ Tick(RevokeClock)
    /\ UNCHANGED <<_rate_limit_store, admitted, limiterVars, serviceVars, codec, hasher, schema, boot>>

\* the token a request carries: the kept one, or the one in the cookie jar
Held(kept) == IF kept THEN Captured ELSE cookie

NextRevoke ==
    \/ AdvanceRevoke
    \/ \E s \in {1} : Logout(s)
    \/ \E s \in {1}, ip \in IPs, password \in Passwords :
          StartLogin(s, ip, "alice", password)
    \/ \E s \in {1} : LoginAuthenticate(s)
    \/ \E s \in {1}, ip \in IPs, kept \in BOOLEAN :
          StartAuthenticated(s, "change_password", ip, Held(kept),
                             "pw12345678", "newpassword456", "")
    \/ \E s \in {1}, ip \in IPs, kept \in BOOLEAN :
          StartAuthenticated(s, "update_theme_preference", ip, Held(kept), "", "", "dark")
    \/ \E s \in {1}, ip \in IPs, kept \in BOOLEAN :
          StartUpdateMe(s, ip, Held(kept), "b@x.com", "")
    \/ \E s \in {1}, ip \in IPs :
          StartAuthenticated(s, "get_me", ip, Captured, "", "", "")
    \/ \E s \in {1} : RejectUser(s)
    \/ \E s \in {1} : GetMe(s)
    \/ \E s \in {1} : ChangePassword(s)
    \/ \E s \in {1} : UpdateThemePreference(s)
    \/ \E s \in {1} : UpdateMe(s)
    \/ \E s \in {1} : Update(s)
    \/ \E id \in DOMAIN users : Deactivate(id)

SpecRevoke == InitRevoke /\ [][NextRevoke]_vars

-----------------------------------------------------------------------------
(* Claims about revocation, checked under SpecRevoke *)

\* get_current_user, run now for this token, returns a user
Resolves(token) ==
    LET id == get_current_user_id(token, now)
    IN  /\ id.status = 0
        /\ current_user(get_by_id(id.user_id)).status = 0

\* the subject of the kept token has a row, and the row is active
SubjectActive ==
    /\ int(Captured.sub) \in DOMAIN users
    /\ users[int(Captured.sub)].is_active

\* this step is a step of a request handler of the service
ServiceStep == sent' # sent \/ req' # req

\* C29: no revocation.  In every state the kept token resolves exactly when
\* the time is not past its expiry and its subject exists and is active; no
\* step of the service (logout, login, change_password, update_me, theme)
\* removes a user, changes an is_active flag or changes whether the kept
\* token resolves; and a GET /me that presents it is answered accordingly:
\* refused at arrival only when expired, and once the user is read answered
\* 200 exactly when the subject is active.
C29_NoRevocation ==
    [][/\ Resolves(Captured) <=> (now <= Captured.exp /\ SubjectActive)
       /\ ServiceStep =>
             /\ \A id \in DOMAIN users :
                   /\ id \in DOMAIN users'
                   /\ users'[id].is_active = users[id].is_active
             /\ Resolves(Captured)' = Resolves(Captured)
       /\ (/\ Responds("get_me") /\ resp'.token = Captured
           /\ req' = req) =>
             (now > Captured.exp /\ resp'.status = 401)
       /\ \A s \in Slots :
             (Answered(s, "get_me") /\ req[s].token = Captured) =>
                ((resp'.status = 200 /\ resp'.ran) <=> SubjectActive)]_vars

\* at its expiry second the kept token is answered 200 by GET /me although
\* alice has since changed her password and logged out
C29_Witness ==
    /\ now = 1800
    /\ cookie = NoToken
    /\ users[1].hashed_password = hash_password("newpassword456", "salt1")
    /\ resp.ep = "get_me" /\ resp.token = Captured
    /\ resp.status = 200 /\ resp.ran
-----------------------------------------------------------------------------
(* SpecRefused: a crowded minute.  From one address alice registered,       *)
(* logged in and changed her theme twice and her password once in second 0, *)
(* and changed her theme five times and her password twice in second 30:    *)
(* nine timestamps in the record the endpoints share, three in the record   *)
(* of change-password.  From second 30 on clients register bob, log in as   *)
(* alice and change alice's password and theme, up to two requests in       *)
(* flight at a time: requests are refused with the records as they are (at  *)
(* 30), refused after the timestamps of second 0 have expired (at 61), and  *)
(* admitted again (at 91).                                                  *)

Crowded(n, m) == Zeros(n) \o [i \in 1..m |-> 30]

CrowdedStore ==
    [k \in Keys |->
        IF k = RateKey("10.0.0.1", NoEndpoint) THEN Crowded(4, 5)
        ELSE IF k = RateKey("10.0.0.1", "password_change") THEN Crowded(1, 2)
        ELSE <<>>]

InitCrowded ==
    /\ now = 30
    /\ _rate_limit_store = CrowdedStore
    /\ admitted = CrowdedStore
    /\ limit = [max_requests |-> 0, window_seconds |-> 0]
    /\ calls = [k \in Keys |-> NoCalls]
    /\ lastCall = NoCall
    /\ users = <<NewUser(1, "a@x.com", "alice", hash_password("pw12345678", "salt1"))>>
    /\ req = [s \in Slots |-> Idle]
    /\ resp = Idle
    /\ cookie = create_access_token("1", NoDelta, 0)
    /\ reqlog = [ep \in Limited |->
                    CASE ep = "register" -> Zeros(1)
                      [] ep = "login" -> Zeros(1)
                      [] ep = "update_theme_preference" -> Crowded(2, 5)
                      [] ep = "change_password" -> Crowded(1, 2)]
    /\ sent = 0
    /\ codec = NoCodec
    /\ hasher = NoHasher
    /\ schema = Migrated
    /\ boot = NoBoot

\* at 61 the timestamps of second 0 have left the windows, at 91 those of
\* second 30 as well
CrowdedClock == {30, 61, 91}

AdvanceCrowded ==
    /\ Tick(CrowdedClock)
    /\ UNCHANGED <<_rate_limit_store, admitted, limiterVars, serviceVars, codec, hasher, schema, boot>>

NextRefused ==
    \/ AdvanceCrowded
    \/ \E s \in Slots, ip \in IPs :
          StartRegister(s, ip, "b@x.com", "bob", "pw12345678")
    \/ \E s \in Slots : RegisterCheckEmail(s)
    \/ \E s \in Slots : RegisterCheckUsername(s)
    \/ \E s \in Slots : RegisterCreate(s)
    \/ \E s \in Slots, ip \in IPs :
          StartLogin(s, ip, "alice", "pw12345678")
    \/ \E s \in Slots : LoginAuthenticate(s)
    \/ \E s \in Slots, ip \in IPs :
          StartAuthenticated(s, "change_password", ip, cookie,
                             "pw12345678", "newpassword456", "")
    \/ \E s \in Slots, ip \in IPs :
          StartAuthenticated(s, "update_theme_preference", ip, cookie, "", "", "dark")
    \/ \E s \in Slots : ChangePassword(s)
    \/ \E s \in Slots : UpdateThemePreference(s)
    \/ \E s \in Slots : Update(s)

SpecRefused == InitCrowded /\ [][NextRefused]_vars

-----------------------------------------------------------------------------
(* Claims about refused requests, checked under SpecRefused *)

\* the rate-limit store after the record of the request's key lost the
\* timestamps that are older than the window, and nothing else
Pruned(store, ip, ep) ==
    [store EXCEPT ![RateKey(ip, Quota(ep).endpoint)] =
        recent_requests(@, now - Quota(ep).window_seconds)]

\* C30: a step that answers a request to register, login, change-password
\* or change-theme with 429 leaves the users table and the client's cookie
\* as they were, carries no token and no Set-Cookie header, and leaves the
\* rate-limit store as it was but for the expired timestamps of the
\* request's key.
C30_RefusedChangesNothing ==
    [][\A ep \in Limited :
          (Responds(ep) /\ resp'.status = 429) =>
             /\ users' = users
             /\ cookie' = cookie
             /\ resp'.issued = NoToken
             /\ resp'.header = NoCookie /\ ~resp'.set_cookie
             /\ _rate_limit_store' = Pruned(_rate_limit_store, resp'.ip, ep)]_vars

\* at 61 a registration was refused, and the shared record lost its four
\* timestamps of second 0 and gained none
C30_Witness ==
    /\ now = 61
    /\ resp.ep = "register" /\ resp.at = 61 /\ resp.status = 429
    /\ _rate_limit_store[RateKey("10.0.0.1", NoEndpoint)] = Crowded(0, 5)
    /\ Len(users) = 1
====
